---- MODULE Spec2Model ----
(***************************************************************************)
(* A model of the genesis crawler (outpoot/vyntr, genesis/src).            *)
(*                                                                         *)
(*   - DomainQueues (crawler.rs): the per-domain round-robin queues.       *)
(*     Specification SpecDQ drives add and collect_batch with arbitrary    *)
(*     arguments; SpecOrder keeps the order of the hosts' first adds.      *)
(*   - The crawl engine (main.rs): seed loader, batch_task scheduler,      *)
(*     the for_each_concurrent fetch workers with process_page and         *)
(*     try_tunnel_request, the proxy pool counter and the metrics.         *)
(*     Specification Spec is the crawl; SpecLive adds the fairness of      *)
(*     the scheduler task and SpecFair that of main and the fan-out;       *)
(*     SpecBurst is the seed loader and the scheduler on a seed list of    *)
(*     one host; SpecSave is the crawl with the spawned saves; SpecWatch   *)
(*     adds the inactivity checker task and the clock, SpecTerm their      *)
(*     fairness and a clock that runs on; SpecClassify gives               *)
(*     one response to each of the two fetch paths.                        *)
(*   - ProxyManager (proxy.rs) with concurrent callers: SpecProxy.          *)
(*   - RequestFingerprint (fingerprint.rs): SpecFingerprint.               *)
(*   - save_analyses_batch (db.rs): SpecSink.                              *)
(*   - parse_html (html_parser.rs) on small documents: SpecParse.          *)
(*   - The mutexes and the semaphore of main.rs with the tasks that take   *)
(*     them: SpecLocks.                                                    *)
(***************************************************************************)
EXTENDS Integers, Sequences, FiniteSets, TLC

(***************************************************************************)
(* Bounds of the model.                                                    *)
(***************************************************************************)
\* DomainQueues: add is not called while this many URLs are queued.
MaxPending == 4
\* DomainQueues: collect_batch is called with max_per_domain in 0..MaxPerDomainArg.
MaxPerDomainArg == 2

\* parse_html: the documents have up to MaxElems elements.
MaxElems == 3

\* The locks: a page has up to MaxLinks child links.
MaxLinks == 2

\* Host keys and URL strings. A URL is its host and a number for the rest.
Hosts == {"a", "b", "c"}
URL1 == [host |-> "a", n |-> 1]
URL2 == [host |-> "a", n |-> 2]
URL3 == [host |-> "b", n |-> 1]
URLs == {URL1, URL2, URL3}
\* The link sets parse_html can return: no link; a link back and a new one; one link.
LinkSets == {{}, {URL1, URL2}, {URL3}}
\* The URLs handed to DomainQueues::add: those of the crawl and one of a third host.
DQURLs == URLs \cup {[host |-> "c", n |-> 1]}
\* One URL of each host.
HostURLs == {[host |-> h, n |-> 1] : h \in Hosts}

\* A seed line that neither parses as a URL nor does with http:// prefixed.
BadSeed == [host |-> "", n |-> 0]
\* The seed list of specification SpecBurst: BurstLen URLs of host a.
BurstLen == 6
BurstSeeds == [i \in 1..BurstLen |-> [host |-> "a", n |-> i]]
\* The strings that can be a seed or a link in Spec.
CrawlURLs == URLs \cup {BadSeed}
\* Every string that can be a seed or a link.
AllURLs == URLs \cup {BurstSeeds[i] : i \in 1..BurstLen} \cup {BadSeed}
NoURL == [host |-> "", n |-> -1]

\* The scaled constants of main.rs (BATCH_SIZE 2000, MAX_PAGES 50000, CONCURRENCY 5000).
BATCH_SIZE == 2
MAX_PAGES == 2
CONCURRENCY == 2
\* BATCH_SIZE as scaled in SpecBurst, where it has to exceed the per-domain cap of 5
\* as 2000 does.
BurstBatchSize == 7
\* main.rs: const MAX_TUNNEL_RETRIES
MAX_TUNNEL_RETRIES == 2
\* The proxy file yields no proxy, or MaxProxies proxies.
MaxProxies == 1
\* The scaled constants of the writers and the inactivity checker: DB_CONCURRENCY
\* 20, the checker's interval of 5 s, INACTIVITY_TIMEOUT 60 s.
DB_CONCURRENCY == 1
CHECK_INTERVAL == 2
INACTIVITY_TIMEOUT == 3
\* The clock stops at MaxTime.
MaxTime == 6
\* BATCH_SIZE as scaled in SpecSave, where MAX_PAGES / BATCH_SIZE has to exceed
\* DB_CONCURRENCY as 50000 / 2000 does.
SaveBatchSize == 1

Workers == 1..CONCURRENCY

VARIABLES
    dq,         \* DomainQueues {queues, order, total}
    dq_batch,   \* the Vec returned by the last collect_batch call
    dq_from,    \* for each element of dq_batch, the key of the queue it was popped from
    dq_max,     \* max_per_domain of the last collect_batch call (-1: none yet)
    dq_known,   \* history: the domains passed to add, in the order of their first add
    main_pc,    \* main: "seed" (the seed block, visited locked) or "crawl" (the fan-out)
    seeds,      \* the seeds the seed loop has still to take
    visited,    \* the visited HashSet
    discovered, \* the discovered channel
    buffer,     \* batch_task's buffer
    processing, \* the processing channel
    pages_count,
    metrics,    \* Metrics {total, tunnel, proxy, failed, success}
    proxies,    \* len of ProxyManager.proxies
    current,    \* ProxyManager.current
    pending_analyses,   \* the records (by URL) waiting for a batch
    pending_lock,       \* the worker holding the pending_analyses lock, or 0
    spawned,    \* the batches of the spawned save_analyses_batch tasks still running
    sink,       \* the batches uploaded, in the order the uploads ended
    db_semaphore,   \* the permits db_semaphore has available
    log,        \* the entries flushed to the log file
    now,        \* the clock
    last_activity,  \* Metrics.last_activity
    watch,      \* the inactivity checker task: pc, idle_time, the time of its next tick
    issued,     \* history: the index each fetch_add of get_next_proxy led to, in order
    worker,     \* per fan-out slot: pc, url, current_count, tunnel_retries, child_links
    acct,       \* history, per slot: what process_page did for the slot's URL
    n_sent,     \* history, per URL: sends on discovered
    n_received, \* history, per URL: receives from discovered by batch_task
    n_dispatched,   \* history, per URL: sends on processing
    n_fetched,  \* history, per URL: process_page invocations
    pm_last,    \* ProxyManager callers: what get_next_proxy returned to each last
    rng,        \* RequestFingerprint::new: the StdRng of the call, as the call left it
    fp_seen,    \* history, per (ip, url): the fingerprints new returned
    analyses,   \* save_analyses_batch: the slice it is called with
    uploads,    \* save_analyses_batch: the records of the bodies put to the bucket
    save_pc,    \* save_analyses_batch: "run", or how it returned ("ok", "err")
    cls_resp,   \* the response a fetch path is given
    cls_tunnel, \* what try_tunnel_request made of it ("none": not called)
    cls_proxy,  \* what the proxy arm of process_page made of it ("none": not reached)
    html_doc,   \* parse_html: the document it is called with
    html_pos,   \* parse_html: the number of elements the rewriter has handled
    html_links, \* parse_html: the HashSet links
    html_canonical, \* parse_html: result.canonical_url
    html_ret,   \* parse_html: None while it runs, then Some of the links and the
                \* canonical_url of the ParsedHtml returned
    lk_pc,      \* per task: its position in the sequence of its locks
    lk_holder,  \* per mutex: the task whose guard is alive
    lk_permits, \* the tasks that hold a permit of db_semaphore
    lk_links    \* per slot: the child links its loop has yet to insert

dq_vars == <<dq, dq_batch, dq_from, dq_max, dq_known>>
crawl_vars == <<main_pc, seeds, visited, discovered, buffer, processing, pages_count,
                metrics, proxies, current, pending_analyses, pending_lock, spawned, sink,
                db_semaphore, log, now, last_activity, watch, issued,
                worker, acct, n_sent, n_received, n_dispatched, n_fetched>>
pm_vars == <<pm_last>>
fp_vars == <<rng, fp_seen>>
db_vars == <<analyses, uploads, save_pc>>
cls_vars == <<cls_resp, cls_tunnel, cls_proxy>>
html_vars == <<html_doc, html_pos, html_links, html_canonical, html_ret>>
lk_vars == <<lk_pc, lk_holder, lk_permits, lk_links>>
\* The state of the parts a step of the engine leaves alone.
lib_vars == <<dq_vars, pm_vars, fp_vars, db_vars, cls_vars, html_vars, lk_vars>>
vars == <<dq_vars, crawl_vars, pm_vars, fp_vars, db_vars, cls_vars, html_vars, lk_vars>>

(***************************************************************************)
(* Helpers.                                                                *)
(***************************************************************************)
Min(x, y) == IF x <= y THEN x ELSE y

RECURSIVE SumLen(_, _)
\* Sum of the lengths of the queues of the keys in ks.
SumLen(qs, ks) ==
    IF ks = {} THEN 0
    ELSE LET k == CHOOSE x \in ks : TRUE
         IN  Len(qs[k]) + SumLen(qs, ks \ {k})

\* Number of positions of sequence s holding x.
Count(s, x) == Cardinality({i \in 1..Len(s) : s[i] = x})

(***************************************************************************)
(* DomainQueues (crawler.rs).                                              *)
(***************************************************************************)
\* DomainQueues::new
DomainQueuesNew == [queues |-> <<>>, order |-> <<>>, total |-> 0]

\* add without its `total += 1`.
DQAddMutNoTotal(q, domain, url) ==
    LET isNew == domain \notin DOMAIN q.queues
        old   == IF isNew THEN <<>> ELSE q.queues[domain]
    IN  [queues |-> [d \in (DOMAIN q.queues) \cup {domain} |->
                        IF d = domain THEN Append(old, url) ELSE q.queues[d]],
         order  |-> IF isNew THEN Append(q.order, domain) ELSE q.order,
         total  |-> q.total]

\* An add that pushes the domain to order on every call.
DQAddMutPushAlways(q, domain, url) ==
    LET isNew == domain \notin DOMAIN q.queues
        old   == IF isNew THEN <<>> ELSE q.queues[domain]
    IN  [queues |-> [d \in (DOMAIN q.queues) \cup {domain} |->
                        IF d = domain THEN Append(old, url) ELSE q.queues[d]],
         order  |-> Append(q.order, domain),
         total  |-> q.total + 1]

\* DomainQueues::add: entry(domain).or_insert_with pushes a new domain to
\* order and creates its queue; push_back; total += 1.
DQAdd(q, domain, url) ==
    LET isNew == domain \notin DOMAIN q.queues
        old   == IF isNew THEN <<>> ELSE q.queues[domain]
    IN  [queues |-> [d \in (DOMAIN q.queues) \cup {domain} |->
                        IF d = domain THEN Append(old, url) ELSE q.queues[d]],
         order  |-> IF isNew THEN Append(q.order, domain) ELSE q.order,
         total  |-> q.total + 1]

\* A `take` that is the whole queue.
TakeCountMutAll(len, max_per_domain) == len

\* `take` of one domain: min(queue.len(), max_per_domain).
TakeCount(len, max_per_domain) == Min(len, max_per_domain)

RECURSIVE PopLoopMutBack(_, _, _)
\* A pop loop that takes from the back of the queue.
PopLoopMutBack(st, domain, take) ==
    IF take = 0 \/ st.queue = <<>> THEN st
    ELSE PopLoopMutBack([queue |-> SubSeq(st.queue, 1, Len(st.queue) - 1),
                         batch |-> Append(st.batch, st.queue[Len(st.queue)]),
                         from  |-> Append(st.from, domain),
                         total |-> st.total - 1], domain, take - 1)

RECURSIVE PopLoopMutNoTotal(_, _, _)
\* A pop loop without its `self.total -= 1`.
PopLoopMutNoTotal(st, domain, take) ==
    IF take = 0 \/ st.queue = <<>> THEN st
    ELSE PopLoopMutNoTotal([queue |-> Tail(st.queue),
                            batch |-> Append(st.batch, Head(st.queue)),
                            from  |-> Append(st.from, domain),
                            total |-> st.total], domain, take - 1)

RECURSIVE PopLoop(_, _, _)
\* for _ in 0..take { if let Some(url) = queue.pop_front() { batch.push(url);
\* self.total -= 1 } }: st carries the queue, the batch, its tags and total.
PopLoop(st, domain, take) ==
    IF take = 0 \/ st.queue = <<>> THEN
        IF take = 0 THEN st ELSE PopLoop(st, domain, take - 1)
    ELSE PopLoop([queue |-> Tail(st.queue),
                  batch |-> Append(st.batch, Head(st.queue)),
                  from  |-> Append(st.from, domain),
                  total |-> st.total - 1], domain, take - 1)

RECURSIVE DomainLoopMutBatchCap(_, _, _, _)
\* A loop over the domains that ends once the batch holds max_per_domain URLs.
DomainLoopMutBatchCap(st, order, i, max_per_domain) ==
    IF i > Len(order) \/ Len(st.batch) >= max_per_domain THEN st
    ELSE LET domain == order[i]
         IN  IF domain \in DOMAIN st.queues THEN
                 LET queue == st.queues[domain]
                     take  == TakeCount(Len(queue), max_per_domain)
                     r     == PopLoop([queue |-> queue, batch |-> st.batch,
                                       from |-> st.from, total |-> st.total],
                                      domain, take)
                 IN  DomainLoopMutBatchCap([queues |-> [st.queues EXCEPT ![domain] = r.queue],
                                 batch |-> r.batch, from |-> r.from, total |-> r.total],
                                order, i + 1, max_per_domain)
             ELSE DomainLoopMutBatchCap(st, order, i + 1, max_per_domain)

RECURSIVE DomainLoop(_, _, _, _)
\* for domain in &self.order { if let Some(queue) = self.queues.get_mut(domain) ... }
\* st carries queues, batch, its tags and total; i is the position in order.
DomainLoop(st, order, i, max_per_domain) ==
    IF i > Len(order) THEN st
    ELSE LET domain == order[i]
         IN  IF domain \in DOMAIN st.queues THEN
                 LET queue == st.queues[domain]
                     take  == TakeCount(Len(queue), max_per_domain)
                     r     == PopLoop([queue |-> queue, batch |-> st.batch,
                                       from |-> st.from, total |-> st.total],
                                      domain, take)
                 IN  DomainLoop([queues |-> [st.queues EXCEPT ![domain] = r.queue],
                                 batch |-> r.batch, from |-> r.from, total |-> r.total],
                                order, i + 1, max_per_domain)
             ELSE DomainLoop(st, order, i + 1, max_per_domain)

\* No rotation.
RotateLeft1MutNone(order) == order

\* An exchange of the first two domains.
RotateLeft1MutSwap(order) ==
    IF Len(order) < 2 THEN order
    ELSE <<order[2], order[1]>> \o SubSeq(order, 3, Len(order))

\* order.rotate_left(1)
RotateLeft1(order) == IF order = <<>> THEN order ELSE Append(Tail(order), Head(order))

\* DomainQueues::collect_batch: the new DomainQueues in .dq, the returned Vec in .batch.
DQCollectBatch(q, max_per_domain) ==
    LET r == DomainLoop([queues |-> q.queues, batch |-> <<>>, from |-> <<>>,
                         total |-> q.total], q.order, 1, max_per_domain)
    IN  [dq    |-> [queues |-> r.queues, order |-> RotateLeft1(q.order), total |-> r.total],
         batch |-> r.batch,
         from  |-> r.from]

\* extract_domain: the host of a parsed URL.
extract_domain(url) == url.host

(***************************************************************************)
(* The crawl engine (main.rs).                                             *)
(***************************************************************************)
\* Metrics::default
MetricsDefault == [total |-> 0, tunnel |-> 0, proxy |-> 0, failed |-> 0, success |-> 0]

\* AtomicUsize::fetch_add(1) on one counter.
FetchAdd(m, counter) == [m EXCEPT ![counter] = @ + 1]

\* An attempt that only tunnel counts.
TunnelAttemptMutNoTotal(m) == FetchAdd(m, "tunnel")

\* try_tunnel_request, as it is entered: total and tunnel count the attempt.
TunnelAttempt(m) == FetchAdd(FetchAdd(m, "total"), "tunnel")

\* The comparison off by one: `<=`.
RetryTunnelMutOneMore(tunnel_retries) == tunnel_retries <= MAX_TUNNEL_RETRIES

\* process_page, tunnel Err arm: `tunnel_retries < MAX_TUNNEL_RETRIES` after the
\* increment decides between one more tunnel attempt and the proxy fallback.
RetryTunnel(tunnel_retries) == tunnel_retries < MAX_TUNNEL_RETRIES

\* A fallback that proxy does not count.
FallbackMutNoCount(m) == m

\* process_page, leaving the tunnel loop for the fallback: proxy counts the URL.
Fallback(m) == FetchAdd(m, "proxy")

\* process_page, proxy arm: failed counts a 403 and a transport error; an error
\* of response.text() leaves through `?` and counts nothing.
ProxyFailed(m, outcome) ==
    IF outcome \in {"forbidden", "send_err"} THEN FetchAdd(m, "failed") ELSE m

\* An insert whose result is ignored: every value counts as new.
VisitedInsertMutAlwaysNew(set, url) == [set |-> set \cup {url}, fresh |-> TRUE]

\* HashSet::insert: the new set, and whether the value was newly inserted.
VisitedInsert(set, url) == [set |-> set \cup {url}, fresh |-> url \notin set]

\* normalize_url: Url::parse(url) or Url::parse("http://" + url), serialized. The
\* URLs of the model other than BadSeed are in serialized form already.
normalize_url(url) == IF url = BadSeed THEN [ok |-> FALSE] ELSE [ok |-> TRUE, url |-> url]

\* What a request comes back with: an error of send(), or a response with its
\* status whose text() fails or yields the body. A body is the set of the
\* substrings the code looks for that it contains.
Statuses == {200, 403, 404, 500}
Markers == {"403 Forbidden", "Cloudflare", "Worker threw exception"}
Responses ==
    {[kind |-> "send_err"]}
        \cup [kind : {"body_err"}, status : Statuses]
        \cup [kind : {"body"}, status : Statuses, text : SUBSET Markers]

\* str::contains
contains(text, pat) == pat \in text

\* is_cloudflare_error
is_cloudflare_error(text) ==
    contains(text, "Cloudflare") /\ contains(text, "Worker threw exception")

\* try_tunnel_request from the match on send() (362-386): Ok(text) or Err.
try_tunnel_request(response) ==
    IF response.kind # "body" THEN "err"
    ELSE IF response.status = 403 \/ contains(response.text, "403 Forbidden") THEN "err"
    ELSE IF is_cloudflare_error(response.text) THEN "err"
    ELSE "ok"

\* process_page, the match on the proxy request's send() (433-450): the text
\* ("ok"), or the Err it returns with.
ProxyOutcome(response) ==
    IF response.kind = "send_err" THEN "send_err"
    ELSE IF response.kind = "body_err" THEN "body_err"
    ELSE IF response.status = 403 \/ contains(response.text, "403 Forbidden")
         THEN "forbidden"
    ELSE "ok"

\* What the two paths can make of a request, over all it can come back with.
TunnelOutcomes == {try_tunnel_request(response) : response \in Responses}
ProxyOutcomes == {ProxyOutcome(response) : response \in Responses}

\* A get_next_proxy that loads the counter and does not add to it.
GetNextProxyMutLoad(len, cur) ==
    IF len = 0 THEN [some |-> FALSE, current |-> cur]
    ELSE [some |-> TRUE, index |-> cur % len, current |-> cur]

\* ProxyManager::get_next_proxy: None on an empty pool, else the index
\* fetch_add(1) % len.
GetNextProxy(len, cur) ==
    IF len = 0 THEN [some |-> FALSE, current |-> cur]
    ELSE [some |-> TRUE, index |-> cur % len, current |-> cur + 1]

\* buffer.shuffle(&mut rng): any order of the same elements.
Shuffles(buf) ==
    {[i \in 1..Len(buf) |-> buf[p[i]]] : p \in Permutations(1..Len(buf))}

\* A flush that iterates the buffer without draining it.
DrainedMutKeeps(buf) == buf

\* buffer.drain(..) leaves the buffer empty.
Drained(buf) == <<>>

\* A tick arm that never flushes.
TickFlushesMutNever(buf) == FALSE

\* The interval.tick() arm flushes a buffer that is not empty.
TickFlushes(buf) == buf # <<>>

\* n with the count of every element of sequence s added.
CountAll(n, s) == [u \in DOMAIN n |-> n[u] + Count(s, u)]

\* The process runs until std::process::exit; no task takes a step after it.
Running == main_pc # "exited"

\* A cap that stops no worker.
OverCapMutNever(current_count) == FALSE

\* The fan-out's `current_count > MAX_PAGES`: the worker returns at once.
OverCap(current_count) == current_count > MAX_PAGES

\* A threshold that the batch size itself does not reach: `>`.
BatchReadyMutOver(len, batch_size) == len > batch_size

\* `analyses.len() >= BATCH_SIZE` after the push.
BatchReady(len, batch_size) == len >= batch_size

\* A drain that copies the records and leaves them in the buffer.
DrainBatchMutCopies(pending, batch_size) ==
    [batch |-> SubSeq(pending, 1, batch_size), rest |-> pending]

\* `analyses.drain(..BATCH_SIZE).collect()`: the records drained and what stays
\* in the buffer.
DrainBatch(pending, batch_size) ==
    [batch |-> SubSeq(pending, 1, batch_size),
     rest |-> SubSeq(pending, batch_size + 1, Len(pending))]

\* Semaphore::acquire takes a permit; dropping the permit gives it back.
PermitAcquired(permits) == permits - 1
PermitDropped(permits) == permits + 1

\* What a fan-out slot holds between two URLs.
IdleWorker == [pc |-> "idle", url |-> NoURL, count |-> 0, retries |-> 0, links |-> {}]
\* The history of a slot's URL: the try_tunnel_request calls and those that
\* failed, the get_next_proxy calls, the proxy requests sent, the path that got the
\* body ("tunnel", "proxy"), how process_page ended, the records pushed, the
\* links found visited already, and the change of each counter the slot made.
NoAcct == [tunnel_calls |-> 0, tunnel_fails |-> 0, pool_calls |-> 0, proxy_reqs |-> 0,
           path |-> "none", end |-> "none", pushes |-> 0, known |-> {},
           d |-> MetricsDefault]

\* acct with the change of the metrics from m0 to m1 added.
Charged(a, m0, m1) ==
    [a EXCEPT !.d = [c \in DOMAIN MetricsDefault |-> a.d[c] + m1[c] - m0[c]]]

InitDQ ==
    /\ dq = DomainQueuesNew
    /\ dq_batch = <<>>
    /\ dq_from = <<>>
    /\ dq_max = -1
    /\ dq_known = <<>>

\* main up to the seed block, for a seed file and a proxy file.
InitCrawl(seed_list, pool_len) ==
    /\ main_pc = "seed"
    /\ seeds = seed_list
    /\ visited = {}
    /\ discovered = <<>>
    /\ buffer = <<>>
    /\ processing = <<>>
    /\ pages_count = 0
    /\ metrics = MetricsDefault
    /\ proxies = pool_len
    /\ current = 0
    /\ pending_analyses = <<>>
    /\ pending_lock = 0
    /\ spawned = <<>>
    /\ sink = <<>>
    /\ db_semaphore = DB_CONCURRENCY
    /\ log = <<>>
    /\ now = 0
    /\ last_activity = 0
    /\ watch = [pc |-> "tick", idle_time |-> 0, next |-> 0]
    /\ issued = <<>>
    /\ worker = [w \in Workers |-> IdleWorker]
    /\ acct = [w \in Workers |-> NoAcct]
    /\ n_sent = [u \in AllURLs |-> 0]
    /\ n_received = [u \in AllURLs |-> 0]
    /\ n_dispatched = [u \in AllURLs |-> 0]
    /\ n_fetched = [u \in AllURLs |-> 0]

(***************************************************************************)
(* ProxyManager (proxy.rs), called by concurrent callers. fetch_add is     *)
(* atomic, so a call is one step.                                          *)
(***************************************************************************)
\* The number of callers, the largest pool, and the calls made at most.
NumCallers == 3
MaxPool == 3
MaxCalls == 6
Callers == 1..NumCallers

InitPM == pm_last = [c \in Callers |-> [called |-> FALSE, some |-> FALSE, index |-> 0]]

\* Caller c calls get_next_proxy.
GetNextProxyCall(c) ==
    /\ current < MaxCalls
    /\ LET proxy == GetNextProxy(proxies, current)
       IN  /\ current' = proxy.current
           /\ issued' = IF proxy.some THEN Append(issued, proxy.index) ELSE issued
           /\ pm_last' = [pm_last EXCEPT ![c] =
                              [called |-> TRUE, some |-> proxy.some,
                               index |-> IF proxy.some THEN proxy.index ELSE 0]]
    /\ UNCHANGED <<main_pc, seeds, visited, discovered, buffer, processing, pages_count,
                   metrics, proxies, pending_analyses, pending_lock, spawned, sink,
                   db_semaphore, log, now, last_activity, watch, worker, acct,
                   n_sent, n_received, n_dispatched, n_fetched>>
    /\ UNCHANGED <<dq_vars, fp_vars, db_vars, cls_vars, html_vars, lk_vars>>

(***************************************************************************)
(* RequestFingerprint (fingerprint.rs). StdRng is a generator whose        *)
(* output is a function of its state; the model's has RngMod states.       *)
(***************************************************************************)
NumIPs == 2
IPs == 1..NumIPs
RngMod == 16
\* The URLs new is called with: one that does not parse, one of path "/", two of
\* other paths.
FpURLs == {[parses |-> FALSE, scheme |-> "", host |-> "", path |-> ""],
           [parses |-> TRUE, scheme |-> "http", host |-> "a", path |-> "/"],
           [parses |-> TRUE, scheme |-> "http", host |-> "a", path |-> "/x"],
           [parses |-> TRUE, scheme |-> "https", host |-> "b", path |-> "/y"]}
\* Option<String>: None.
NoReferrer == [some |-> FALSE, scheme |-> "", host |-> ""]

\* The catalogues, with weights (9-47), cut to two agents each.
DESKTOP_USER_AGENTS == <<[agent |-> "desktop1", weight |-> 3], [agent |-> "desktop2", weight |-> 1]>>
MOBILE_USER_AGENTS == <<[agent |-> "mobile1", weight |-> 2], [agent |-> "mobile2", weight |-> 1]>>
\* DESKTOP_MOBILE_RATIO.1 / 100 and the 0.1 of generate_referrer, as shares of RngMod.
MobileShare == 7
NoReferrerShare == 2

\* The generator steps, and its output is its new state.
RngStep(state) == (5 * state + 3) % RngMod

\* ip_seed: DefaultHasher::new() has fixed keys, the hash is a function of ip.
ip_seed(ip) == (5 * ip + 3) % RngMod

\* rng.random_bool(p): one output, compared with p.
random_bool(state, share) == [rng |-> RngStep(state), value |-> RngStep(state) < share]

RECURSIVE WeightedIndex(_, _, _)
\* The first index of pool at which the weights added up exceed x.
WeightedIndex(pool, i, x) ==
    IF i >= Len(pool) \/ x < pool[i].weight THEN i
    ELSE WeightedIndex(pool, i + 1, x - pool[i].weight)

RECURSIVE TotalWeight(_, _)
TotalWeight(pool, i) == IF i > Len(pool) THEN 0 ELSE pool[i].weight + TotalWeight(pool, i + 1)

\* agent_pool.choose_weighted(rng, |item| item.1): one output picks the item.
choose_weighted(state, pool) ==
    [rng |-> RngStep(state),
     value |-> pool[WeightedIndex(pool, 1, RngStep(state) % TotalWeight(pool, 1))]]

\* generate_user_agent
generate_user_agent(state) ==
    LET is_mobile  == random_bool(state, MobileShare)
        agent_pool == IF is_mobile.value THEN MOBILE_USER_AGENTS ELSE DESKTOP_USER_AGENTS
        chosen     == choose_weighted(is_mobile.rng, agent_pool)
    IN  [rng |-> chosen.rng, value |-> chosen.value.agent]

\* generate_referrer: None for a URL that does not parse; `&&` draws from the
\* generator only when the path is not "/".
generate_referrer(url, state) ==
    IF ~url.parses \/ url.path = "/" THEN [rng |-> state, value |-> NoReferrer]
    ELSE LET skip == random_bool(state, NoReferrerShare)
         IN  [rng |-> skip.rng,
              value |-> IF ~skip.value
                        THEN [some |-> TRUE, scheme |-> url.scheme, host |-> url.host]
                        ELSE NoReferrer]

\* RequestFingerprint::new for a generator in state `state`.
Fingerprint(url, state) ==
    LET user_agent == generate_user_agent(state)
        referrer   == generate_referrer(url, user_agent.rng)
    IN  [rng |-> referrer.rng,
         value |-> [user_agent |-> user_agent.value, referrer |-> referrer.value]]

InitFP ==
    /\ rng = 0
    /\ fp_seen = [pair \in IPs \X FpURLs |-> {}]

\* A call of new that goes on with the generator the call before left.
FingerprintNewMutSharedRng ==
    /\ \E ip \in IPs, url \in FpURLs :
        LET fp == Fingerprint(url, rng)
        IN  /\ rng' = fp.rng
            /\ fp_seen' = [fp_seen EXCEPT ![<<ip, url>>] = @ \cup {fp.value}]
    /\ UNCHANGED <<crawl_vars, dq_vars, pm_vars, db_vars, cls_vars, html_vars, lk_vars>>

\* A call of new(ip, url): the generator is seeded from ip_seed(ip).
FingerprintNew ==
    /\ \E ip \in IPs, url \in FpURLs :
        LET fp == Fingerprint(url, ip_seed(ip))
        IN  /\ rng' = fp.rng
            /\ fp_seen' = [fp_seen EXCEPT ![<<ip, url>>] = @ \cup {fp.value}]
    /\ UNCHANGED <<crawl_vars, dq_vars, pm_vars, db_vars, cls_vars, html_vars, lk_vars>>

(***************************************************************************)
(* save_analyses_batch (db.rs). A text is the sequence of the code points  *)
(* of its chars.                                                           *)
(***************************************************************************)
\* The records of a slice at most, and analyses.chunks(10_000) scaled.
MaxSlice == 2
ChunkSize == 1

\* char::is_control: the category Cc, U+0000..U+001F and U+007F..U+009F.
is_control(c) == c \in 0..31 \/ c \in 127..159

\* A filter that knows the C0 controls only.
sanitize_textMutC0Only(text) == SelectSeq(text, LAMBDA c : ~(c \in 0..31) /\ c # 0)

\* sanitize_text
sanitize_text(text) == SelectSeq(text, LAMBDA c : ~is_control(c) /\ c # 0)

\* sanitize_analysis
sanitize_analysis(analysis) ==
    [url          |-> sanitize_text(analysis.url),
     language     |-> sanitize_text(analysis.language),
     title        |-> sanitize_text(analysis.title),
     meta_tags    |-> [i \in 1..Len(analysis.meta_tags) |->
                          [name    |-> sanitize_text(analysis.meta_tags[i].name),
                           content |-> sanitize_text(analysis.meta_tags[i].content)]],
     canonical_url |-> [some |-> analysis.canonical_url.some,
                        url  |-> sanitize_text(analysis.canonical_url.url)],
     content_text |-> sanitize_text(analysis.content_text)]

\* A text of letters, and texts with NUL, LF, DEL and U+0085 in them.
CleanText == <<65, 66>>
DirtyTexts == {<<0, 65>>, <<65, 10, 66>>, <<127>>, <<65, 133>>}
NoCanonical == [some |-> FALSE, url |-> <<>>]
CleanRecord ==
    [url |-> CleanText, language |-> CleanText, title |-> CleanText,
     meta_tags |-> <<[name |-> CleanText, content |-> CleanText]>>,
     canonical_url |-> [some |-> TRUE, url |-> CleanText],
     content_text |-> CleanText]
\* The records of the slices: the clean one; one raw text in one field; no
\* canonical_url and no meta tag.
RawRecords ==
    {CleanRecord, [CleanRecord EXCEPT !.canonical_url = NoCanonical, !.meta_tags = <<>>]}
    \cup {[CleanRecord EXCEPT ![f] = t] :
              f \in {"url", "language", "title", "content_text"}, t \in DirtyTexts}
    \cup {[CleanRecord EXCEPT !.meta_tags[1].name = t] : t \in DirtyTexts}
    \cup {[CleanRecord EXCEPT !.meta_tags[1].content = t] : t \in DirtyTexts}
    \cup {[CleanRecord EXCEPT !.canonical_url.url = t] : t \in DirtyTexts}
Slices == UNION {[1..n -> RawRecords] : n \in 0..MaxSlice}

\* analyses.chunks(ChunkSize): how many there are, and the k-th.
NumChunks(slice) == (Len(slice) + ChunkSize - 1) \div ChunkSize
Chunk(slice, k) == SubSeq(slice, (k - 1) * ChunkSize + 1, Min(k * ChunkSize, Len(slice)))

InitDB ==
    /\ analyses = <<>>
    /\ uploads = <<>>
    /\ save_pc = "run"

\* One turn of the chunk loop (92-135): the records are sanitized and serialized,
\* and put_object either stores the body or its error leaves the function.
UploadChunk ==
    /\ save_pc = "run"
    /\ Len(uploads) < NumChunks(analyses)
    /\ LET chunk == Chunk(analyses, Len(uploads) + 1)
           body  == [i \in 1..Len(chunk) |-> sanitize_analysis(chunk[i])]
       IN  \E outcome \in {"ok", "err"} :
               IF outcome = "ok"
               THEN uploads' = Append(uploads, body) /\ UNCHANGED save_pc
               ELSE save_pc' = "err" /\ UNCHANGED uploads
    /\ UNCHANGED analyses
    /\ UNCHANGED <<crawl_vars, dq_vars, pm_vars, fp_vars, cls_vars, html_vars, lk_vars>>

\* The loop is over: Ok(()).
SaveReturns ==
    /\ save_pc = "run"
    /\ Len(uploads) = NumChunks(analyses)
    /\ save_pc' = "ok"
    /\ UNCHANGED <<analyses, uploads>>
    /\ UNCHANGED <<crawl_vars, dq_vars, pm_vars, fp_vars, cls_vars, html_vars, lk_vars>>

\* The parts of the engine's state that belong to the modules it uses.
\* The two fetch paths, given a response.
NoResponse == [kind |-> "none"]

InitCls ==
    /\ cls_resp = NoResponse
    /\ cls_tunnel = "none"
    /\ cls_proxy = "none"

\* try_tunnel_request is given the response.
ClassifyTunnel ==
    /\ cls_resp # NoResponse
    /\ cls_tunnel = "none"
    /\ cls_tunnel' = try_tunnel_request(cls_resp)
    /\ UNCHANGED <<cls_resp, cls_proxy>>
    /\ UNCHANGED <<crawl_vars, dq_vars, pm_vars, fp_vars, db_vars, html_vars, lk_vars>>

\* The proxy arm of process_page is given the response.
ClassifyProxy ==
    /\ cls_resp # NoResponse
    /\ cls_proxy = "none"
    /\ cls_proxy' = ProxyOutcome(cls_resp)
    /\ UNCHANGED <<cls_resp, cls_tunnel>>
    /\ UNCHANGED <<crawl_vars, dq_vars, pm_vars, fp_vars, db_vars, html_vars, lk_vars>>

(***************************************************************************)
(* parse_html (html_parser.rs). A document is the sequence of its elements *)
(* in document order; the rewriter hands each element to the handlers      *)
(* whose selector it matches. Strings are strings; a Url is the record of  *)
(* its components, as Url::join leaves them.                               *)
(***************************************************************************)
\* Option<T>
None == [some |-> FALSE]
Some(v) == [some |-> TRUE, val |-> v]

\* str::ends_with
ends_with(s, suffix) ==
    /\ Len(s) >= Len(suffix)
    /\ SubSeq(s, Len(s) - Len(suffix) + 1, Len(s)) = suffix

\* str::contains on a pattern string
contains_str(s, pattern) ==
    \E i \in 1..(Len(s) - Len(pattern) + 1) : SubSeq(s, i, i + Len(pattern) - 1) = pattern

\* char::to_lowercase, on the letters of the documents of the model.
LowerChar(c) ==
    CASE c = "A" -> "a" [] c = "B" -> "b" [] c = "C" -> "c" [] c = "D" -> "d"
      [] c = "E" -> "e" [] c = "F" -> "f" [] c = "G" -> "g" [] c = "H" -> "h"
      [] c = "I" -> "i" [] c = "J" -> "j" [] c = "K" -> "k" [] c = "L" -> "l"
      [] c = "M" -> "m" [] c = "N" -> "n" [] c = "O" -> "o" [] c = "P" -> "p"
      [] c = "Q" -> "q" [] c = "R" -> "r" [] c = "S" -> "s" [] c = "T" -> "t"
      [] c = "U" -> "u" [] c = "V" -> "v" [] c = "W" -> "w" [] c = "X" -> "x"
      [] c = "Y" -> "y" [] c = "Z" -> "z" [] OTHER -> c

\* str::to_lowercase
RECURSIVE to_lowercase(_)
to_lowercase(s) ==
    IF Len(s) = 0 THEN s
    ELSE LowerChar(SubSeq(s, 1, 1)) \o to_lowercase(SubSeq(s, 2, Len(s)))

\* split('/').last(): what follows the last '/' of s (s itself if it has none).
RECURSIVE LastSegment(_)
LastSegment(s) ==
    IF \E i \in 1..Len(s) : SubSeq(s, i, i) = "/"
    THEN LastSegment(SubSeq(s, 1 + CHOOSE i \in 1..Len(s) : SubSeq(s, i, i) = "/", Len(s)))
    ELSE s

\* chars().all(|c| c.is_numeric() || c == '.')
AllNumericOrDot(s) ==
    \A i \in 1..Len(s) :
        SubSeq(s, i, i) \in {"0", "1", "2", "3", "4", "5", "6", "7", "8", "9", "."}

extensions ==
    {".jpg", ".jpeg", ".png", ".gif", ".bmp", ".webp", ".svg", ".ico", ".tiff", ".pdf",
     ".epub", ".mobi", ".doc", ".docx", ".xls", ".xlsx", ".ppt", ".pptx", ".txt", ".rtf",
     ".csv", ".zip", ".rar", ".tar", ".gz", ".7z", ".bz2", ".iso", ".mp3", ".mp4", ".wav",
     ".avi", ".mov", ".wmv", ".flv", ".ogg", ".ogv", ".webm", ".m4a", ".m4v", ".3gp",
     ".exe", ".dmg", ".pkg", ".deb", ".rpm", ".apk", ".ipa"}

blocked_patterns ==
    {"/download/", "/compress/", "/stream/", "/pdf/", "/static/", "/content/uploads/",
     "arxiv.org/pdf/", "arxiv.org/ps/", "arxiv.org/src/", ".pdf?", "/lectures/",
     "/video/", "/audio/", "/rss", ".rss", "/feed", "/atom"}

is_ignored_file_type(path) ==
    LET path_lower == to_lowercase(path)
    IN  \/ \E ext \in extensions : ends_with(path_lower, ext)
        \/ \E pattern \in blocked_patterns : contains_str(path_lower, pattern)
        \/ /\ contains_str(path_lower, "/pdf/")
           /\ AllNumericOrDot(LastSegment(path_lower))

\* The page's own URL, the base_url of the call.
BaseUrl == [scheme |-> "http", host |-> "a.test", path |-> "/", fragment |-> None]

\* The href attributes of the documents: the attribute as written and what a URL
\* parser reads in it. scheme "" is a relative reference; path "" is none (a
\* reference of a fragment only); ok FALSE is a reference no URL parser accepts.
Href(raw, ok, scheme, host, path, fragment) ==
    [raw |-> raw, ok |-> ok, scheme |-> scheme, host |-> host, path |-> path,
     fragment |-> fragment]

HrefDocs == Href("/docs", TRUE, "", "", "/docs", None)
HrefDocsIntro == Href("/docs#intro", TRUE, "", "", "/docs", Some("intro"))
HrefDocsAbs == Href("http://a.test/docs#top", TRUE, "http", "a.test", "/docs", Some("top"))
HrefPdf == Href("/file.pdf", TRUE, "", "", "/file.pdf", None)
HrefPdfUpper == Href("/Report.PDF", TRUE, "", "", "/Report.PDF", None)
HrefDownload == Href("/download/app", TRUE, "", "", "/download/app", None)
HrefMailto == Href("mailto:me@a.test", TRUE, "mailto", "", "me@a.test", None)
HrefOther == Href("https://b.test/y", TRUE, "https", "b.test", "/y", None)
HrefBad == Href("http://[", FALSE, "", "", "", None)
HrefTop == Href("#top", TRUE, "", "", "", Some("top"))
HrefCanon1 == Href("https://a.test/one", TRUE, "https", "a.test", "/one", None)
HrefCanon2 == Href("/two", TRUE, "", "", "/two", None)

AnchorHrefs ==
    {HrefDocs, HrefDocsIntro, HrefDocsAbs, HrefPdf, HrefPdfUpper, HrefDownload,
     HrefMailto, HrefOther, HrefBad, HrefTop}

\* The elements of the documents: <a> with and without href, <link> with
\* rel="canonical" with and without href, <link rel="stylesheet">.
Elements ==
    [tag : {"a"}, rel : {""}, href : {Some(h) : h \in AnchorHrefs} \cup {None}]
        \cup [tag : {"link"}, rel : {"canonical"},
              href : {Some(HrefCanon1), Some(HrefCanon2), None}]
        \cup [tag : {"link"}, rel : {"stylesheet"}, href : {Some(HrefCanon2)}]

\* The documents: up to MaxElems elements.
Documents == UNION {[1..n -> Elements] : n \in 0..MaxElems}

\* Url::join: the reference resolved against the base, or Err.
join(base, href) ==
    IF ~href.ok THEN [ok |-> FALSE]
    ELSE IF href.scheme # ""
         THEN [ok |-> TRUE,
               url |-> [scheme |-> href.scheme, host |-> href.host, path |-> href.path,
                        fragment |-> href.fragment]]
         ELSE [ok |-> TRUE,
               url |-> [scheme |-> base.scheme, host |-> base.host,
                        path |-> IF href.path = "" THEN base.path ELSE href.path,
                        fragment |-> href.fragment]]

\* A set_fragment that leaves the URL as it is.
set_fragmentMutKeep(url, fragment) == url

\* Url::set_fragment
set_fragment(url, fragment) == [url EXCEPT !.fragment = fragment]

\* Url::to_string: the serialization.
to_string(url) ==
    url.scheme
        \o (IF url.scheme \in {"http", "https"} THEN "://" ELSE ":")
        \o url.host \o url.path
        \o (IF url.fragment.some THEN "#" \o url.fragment.val ELSE "")

\* The a[href] handler (39-51): the links after element el.
AnchorHandler(links, el) ==
    IF el.href.some
    THEN LET joined == join(BaseUrl, el.href.val)
         IN  IF joined.ok
             THEN LET url == set_fragment(joined.url, None)
                  IN  IF (url.scheme = "http" \/ url.scheme = "https")
                         /\ ~is_ignored_file_type(url.path)
                      THEN links \cup {to_string(url)}
                      ELSE links
             ELSE links
    ELSE links

\* The link[rel='canonical'] handler (73-78): result.canonical_url after el.
CanonicalHandler(canonical_url, el) ==
    IF el.href.some THEN Some(el.href.val.raw) ELSE canonical_url

\* The orders a HashSet's iterator can give its elements in.
IterOrders(set) ==
    {order \in [1..Cardinality(set) -> set] :
        \A i, j \in 1..Cardinality(set) : order[i] = order[j] => i = j}

InitHtml ==
    /\ html_doc = <<>>
    /\ html_pos = 0
    /\ html_links = {}
    /\ html_canonical = None
    /\ html_ret = None

\* rewriter.write(html): the next element of the document is handed to the
\* handlers it matches.
HandleElement ==
    /\ html_ret = None
    /\ html_pos < Len(html_doc)
    /\ LET el == html_doc[html_pos + 1]
       IN  /\ html_links' = IF el.tag = "a" /\ el.href.some
                            THEN AnchorHandler(html_links, el)
                            ELSE html_links
           /\ html_canonical' = IF el.tag = "link" /\ el.rel = "canonical"
                                THEN CanonicalHandler(html_canonical, el)
                                ELSE html_canonical
    /\ html_pos' = html_pos + 1
    /\ UNCHANGED <<html_doc, html_ret>>
    /\ UNCHANGED <<crawl_vars, dq_vars, pm_vars, fp_vars, db_vars, cls_vars, lk_vars>>

\* rewriter.end() and line 97: result.links is the set as its iterator gives it.
ParseReturns ==
    /\ html_ret = None
    /\ html_pos = Len(html_doc)
    /\ \E order \in IterOrders(html_links) :
        html_ret' = Some([links |-> order, canonical_url |-> html_canonical])
    /\ UNCHANGED <<html_doc, html_pos, html_links, html_canonical>>
    /\ UNCHANGED <<crawl_vars, dq_vars, pm_vars, fp_vars, db_vars, cls_vars, lk_vars>>

(***************************************************************************)
(* The locks of main.rs and the tasks that take them: the logger flusher   *)
(* (80-88), the metrics emitter (91-122), the inactivity checker           *)
(* (126-147), main with its seed block (202-211) and the slots of the      *)
(* fan-out (215-276) with process_page (395, 403). batch_task and the      *)
(* spawned saves take no lock and hold no permit. A task at a "lock_" or   *)
(* "acquire_" position waits for what the position names.                  *)
(***************************************************************************)
Mutexes == {"pending_analyses", "visited", "logger", "last_activity"}

MainTask == <<"main", 0>>
FlusherTask == <<"flusher", 0>>
EmitterTask == <<"emitter", 0>>
CheckerTask == <<"checker", 0>>
SlotTask(w) == <<"slot", w>>
SlotTasks == {SlotTask(w) : w \in Workers}
LockTasks == SlotTasks \cup {MainTask, FlusherTask, EmitterTask, CheckerTask}
\* The holder of a mutex that is free.
NoTask == <<"free", 0>>

\* The mutex a position waits for.
LockWanted(pc) ==
    CASE pc \in {"lock_activity", "lock_activity_ok", "checker_lock_activity"}
            -> "last_activity"
      [] pc = "lock_pending" -> "pending_analyses"
      [] pc \in {"lock_visited", "seed_lock_visited"} -> "visited"
      [] pc \in {"lock_logger", "flusher_lock", "emitter_lock", "checker_lock_logger"}
            -> "logger"
      [] OTHER -> "none"

\* The position of a task once it has the mutex it waited for.
LockTaken(pc) ==
    CASE pc = "lock_activity" -> "write_activity"
      [] pc = "lock_activity_ok" -> "write_activity_ok"
      [] pc = "checker_lock_activity" -> "checker_read"
      [] pc = "lock_pending" -> "pushed"
      [] pc = "lock_visited" -> "insert"
      [] pc = "seed_lock_visited" -> "seed_insert"
      [] pc = "lock_logger" -> "log_entry"
      [] pc = "flusher_lock" -> "flusher_flush"
      [] pc = "emitter_lock" -> "emitter_entry"
      [] pc = "checker_lock_logger" -> "checker_exit"

\* The process runs until the checker calls std::process::exit.
LkRunning == lk_pc[CheckerTask] # "exited"

InitLk ==
    /\ lk_pc = [t \in LockTasks |->
                  CASE t = MainTask -> "seed_lock_visited"
                    [] t = FlusherTask -> "flusher_lock"
                    [] t = EmitterTask -> "emitter_lock"
                    [] t = CheckerTask -> "checker_lock_activity"
                    [] OTHER -> "idle"]
    /\ lk_holder = [m \in Mutexes |-> NoTask]
    /\ lk_permits = {}
    /\ lk_links = [w \in Workers |-> 0]

lk_frame == <<crawl_vars, dq_vars, pm_vars, fp_vars, db_vars, cls_vars, html_vars>>

\* Mutex::lock().await returns: the mutex was free and is the task's.
LkLock(t) ==
    /\ LkRunning
    /\ LockWanted(lk_pc[t]) # "none"
    /\ lk_holder[LockWanted(lk_pc[t])] = NoTask
    /\ lk_holder' = [lk_holder EXCEPT ![LockWanted(lk_pc[t])] = t]
    /\ lk_pc' = [lk_pc EXCEPT ![t] = LockTaken(@)]
    /\ UNCHANGED <<lk_permits, lk_links>>
    /\ UNCHANGED lk_frame

\* A seed block whose guard lives on after the block.
SeedScopeDropMutKeeps(holder) == holder

\* The `}` of the seed block (211): visited_lock is dropped.
SeedScopeDrop(holder) == NoTask

\* main: the seeds are inserted and sent, the block ends, and main drives the
\* fan-out.
LkSeedBlock ==
    /\ LkRunning
    /\ lk_pc[MainTask] = "seed_insert"
    /\ lk_holder' = [lk_holder EXCEPT !["visited"] = SeedScopeDrop(@)]
    /\ lk_pc' = [lk_pc EXCEPT ![MainTask] = "fanout"]
    /\ UNCHANGED <<lk_permits, lk_links>>
    /\ UNCHANGED lk_frame

\* A slot of the fan-out takes a URL under the cap and enters process_page.
LkTake(w) ==
    /\ LkRunning
    /\ lk_pc[MainTask] = "fanout"
    /\ lk_pc[SlotTask(w)] = "idle"
    /\ lk_pc' = [lk_pc EXCEPT ![SlotTask(w)] = "lock_activity"]
    /\ UNCHANGED <<lk_holder, lk_permits, lk_links>>
    /\ UNCHANGED lk_frame

\* process_page 395: last_activity is written, the guard of the statement is
\* dropped, and the tunnel is asked.
LkActivityWritten(w) ==
    /\ LkRunning
    /\ lk_pc[SlotTask(w)] = "write_activity"
    /\ lk_holder' = [lk_holder EXCEPT !["last_activity"] = NoTask]
    /\ lk_pc' = [lk_pc EXCEPT ![SlotTask(w)] = "fetch"]
    /\ UNCHANGED <<lk_permits, lk_links>>
    /\ UNCHANGED lk_frame

\* The fetch ends: the tunnel answered (403 is next), a proxy answered and the
\* page parsed (the Ok arm is next), or process_page returned Err.
LkFetched(w) ==
    /\ LkRunning
    /\ lk_pc[SlotTask(w)] = "fetch"
    /\ \E next \in {"lock_activity_ok", "lock_pending", "after"} :
        lk_pc' = [lk_pc EXCEPT ![SlotTask(w)] = next]
    /\ UNCHANGED <<lk_holder, lk_permits, lk_links>>
    /\ UNCHANGED lk_frame

\* process_page 403: last_activity is written and its guard dropped; the page
\* parses (the Ok arm is next) or not.
LkActivityOkWritten(w) ==
    /\ LkRunning
    /\ lk_pc[SlotTask(w)] = "write_activity_ok"
    /\ lk_holder' = [lk_holder EXCEPT !["last_activity"] = NoTask]
    /\ \E next \in {"lock_pending", "after"} :
        lk_pc' = [lk_pc EXCEPT ![SlotTask(w)] = next]
    /\ UNCHANGED <<lk_permits, lk_links>>
    /\ UNCHANGED lk_frame

\* The position of a slot in the Ok arm with n child links left: the next
\* visited.lock() (256), or the end of the arm.
LinkLoop(n) == IF n > 0 THEN "lock_visited" ELSE "arm_end"

\* 239-241: the record is pushed under the guard `analyses`; the batch is
\* full or not; the page has up to MaxLinks child links.
LkPushed(w) ==
    /\ LkRunning
    /\ lk_pc[SlotTask(w)] = "pushed"
    /\ \E ready \in BOOLEAN, n \in 0..MaxLinks :
        /\ lk_links' = [lk_links EXCEPT ![w] = n]
        /\ lk_pc' = [lk_pc EXCEPT ![SlotTask(w)] =
                        IF ready THEN "acquire_permit" ELSE LinkLoop(n)]
    /\ UNCHANGED <<lk_holder, lk_permits>>
    /\ UNCHANGED lk_frame

\* 245: db_semaphore.acquire().await returns a permit.
LkAcquirePermit(w) ==
    /\ LkRunning
    /\ lk_pc[SlotTask(w)] = "acquire_permit"
    /\ Cardinality(lk_permits) < DB_CONCURRENCY
    /\ lk_permits' = lk_permits \cup {SlotTask(w)}
    /\ lk_pc' = [lk_pc EXCEPT ![SlotTask(w)] = "spawn"]
    /\ UNCHANGED <<lk_holder, lk_links>>
    /\ UNCHANGED lk_frame

\* 246-253: the save is spawned and the `if` block ends: `_permit` is dropped.
LkSpawn(w) ==
    /\ LkRunning
    /\ lk_pc[SlotTask(w)] = "spawn"
    /\ lk_permits' = lk_permits \ {SlotTask(w)}
    /\ lk_pc' = [lk_pc EXCEPT ![SlotTask(w)] = LinkLoop(lk_links[w])]
    /\ UNCHANGED <<lk_holder, lk_links>>
    /\ UNCHANGED lk_frame

\* 257-260: the link is inserted and sent; visited_lock is dropped where the
\* body of the loop ends.
LkInserted(w) ==
    /\ LkRunning
    /\ lk_pc[SlotTask(w)] = "insert"
    /\ lk_holder' = [lk_holder EXCEPT !["visited"] = NoTask]
    /\ lk_links' = [lk_links EXCEPT ![w] = @ - 1]
    /\ lk_pc' = [lk_pc EXCEPT ![SlotTask(w)] = LinkLoop(lk_links[w] - 1)]
    /\ UNCHANGED lk_permits
    /\ UNCHANGED lk_frame

\* 261: the Ok arm ends and the guard `analyses` is dropped.
LkArmEnd(w) ==
    /\ LkRunning
    /\ lk_pc[SlotTask(w)] = "arm_end"
    /\ lk_holder' = [lk_holder EXCEPT !["pending_analyses"] = NoTask]
    /\ lk_pc' = [lk_pc EXCEPT ![SlotTask(w)] = "after"]
    /\ UNCHANGED <<lk_permits, lk_links>>
    /\ UNCHANGED lk_frame

\* 267: current_count % BATCH_SIZE == 0 or not.
LkAfter(w) ==
    /\ LkRunning
    /\ lk_pc[SlotTask(w)] = "after"
    /\ \E next \in {"lock_logger", "idle"} :
        lk_pc' = [lk_pc EXCEPT ![SlotTask(w)] = next]
    /\ UNCHANGED <<lk_holder, lk_permits, lk_links>>
    /\ UNCHANGED lk_frame

\* 269-274: the entry is added and the guard dropped; the slot is free.
LkLogged(w) ==
    /\ LkRunning
    /\ lk_pc[SlotTask(w)] = "log_entry"
    /\ lk_holder' = [lk_holder EXCEPT !["logger"] = NoTask]
    /\ lk_pc' = [lk_pc EXCEPT ![SlotTask(w)] = "idle"]
    /\ UNCHANGED <<lk_permits, lk_links>>
    /\ UNCHANGED lk_frame

\* 86: the flusher flushed; its guard is dropped with the statement.
LkFlushed ==
    /\ LkRunning
    /\ lk_pc[FlusherTask] = "flusher_flush"
    /\ lk_holder' = [lk_holder EXCEPT !["logger"] = NoTask]
    /\ lk_pc' = [lk_pc EXCEPT ![FlusherTask] = "flusher_lock"]
    /\ UNCHANGED <<lk_permits, lk_links>>
    /\ UNCHANGED lk_frame

\* 118-121: the emitter added its entry; its guard is dropped where the body of
\* the loop ends.
LkEmitted ==
    /\ LkRunning
    /\ lk_pc[EmitterTask] = "emitter_entry"
    /\ lk_holder' = [lk_holder EXCEPT !["logger"] = NoTask]
    /\ lk_pc' = [lk_pc EXCEPT ![EmitterTask] = "emitter_lock"]
    /\ UNCHANGED <<lk_permits, lk_links>>
    /\ UNCHANGED lk_frame

\* 133-136: the checker read last_activity, the guard of the statement is
\* dropped; idle_time is under the timeout or not.
LkCheckerRead ==
    /\ LkRunning
    /\ lk_pc[CheckerTask] = "checker_read"
    /\ lk_holder' = [lk_holder EXCEPT !["last_activity"] = NoTask]
    /\ \E next \in {"checker_lock_activity", "checker_lock_logger"} :
        lk_pc' = [lk_pc EXCEPT ![CheckerTask] = next]
    /\ UNCHANGED <<lk_permits, lk_links>>
    /\ UNCHANGED lk_frame

\* 138-143: the checker, with the logger's guard, ends the process.
LkCheckerExit ==
    /\ LkRunning
    /\ lk_pc[CheckerTask] = "checker_exit"
    /\ lk_pc' = [lk_pc EXCEPT ![CheckerTask] = "exited"]
    /\ UNCHANGED <<lk_holder, lk_permits, lk_links>>
    /\ UNCHANGED lk_frame

\* The tasks a task waits on: the holder of the mutex it waits for, the holders
\* of the permits when none is left, and, for main in for_each_concurrent, the
\* slots whose futures it drives to their end.
WaitsOn(t) ==
    IF ~LkRunning THEN {}
    ELSE IF LockWanted(lk_pc[t]) # "none"
         THEN {lk_holder[LockWanted(lk_pc[t])]} \ {NoTask}
         ELSE IF lk_pc[t] = "acquire_permit"
              THEN IF Cardinality(lk_permits) < DB_CONCURRENCY THEN {} ELSE lk_permits
              ELSE IF t = MainTask /\ lk_pc[t] = "fanout"
                   THEN {s \in SlotTasks : lk_pc[s] # "idle"}
                   ELSE {}

\* The tasks t waits on, directly or through others.
RECURSIVE WaitsOnChain(_, _)
WaitsOnChain(tasks, n) ==
    IF n = 0 THEN tasks
    ELSE WaitsOnChain(tasks \cup UNION {WaitsOn(u) : u \in tasks}, n - 1)

WaitsOnTransitively(t) == WaitsOnChain(WaitsOn(t), Cardinality(LockTasks))

InitLib == InitDQ /\ InitPM /\ InitFP /\ InitDB /\ InitCls /\ InitHtml /\ InitLk

(***************************************************************************)
(* DomainQueues, driven by arbitrary calls.                                *)
(***************************************************************************)
\* A call of add(domain, url), with the host of the URL as its domain.
AddCall(url) ==
    /\ dq.total < MaxPending
    /\ dq' = DQAdd(dq, extract_domain(url), url)
    /\ UNCHANGED <<dq_batch, dq_from, dq_max>>
    /\ UNCHANGED <<crawl_vars, pm_vars, fp_vars, db_vars, cls_vars, html_vars, lk_vars>>

Add ==
    /\ \E url \in DQURLs : AddCall(url)
    /\ UNCHANGED dq_known

\* The call of add with the history of the domains kept: one URL per host.
AddKnown ==
    \E url \in HostURLs :
        /\ AddCall(url)
        /\ dq_known' = IF Count(dq_known, extract_domain(url)) = 0
                       THEN Append(dq_known, extract_domain(url))
                       ELSE dq_known

\* A call of collect_batch(max_per_domain).
CollectBatch ==
    /\ \E max_per_domain \in 0..MaxPerDomainArg :
        LET r == DQCollectBatch(dq, max_per_domain)
        IN  /\ dq' = r.dq
            /\ dq_batch' = r.batch
            /\ dq_from' = r.from
            /\ dq_max' = max_per_domain
    /\ UNCHANGED dq_known
    /\ UNCHANGED <<crawl_vars, pm_vars, fp_vars, db_vars, cls_vars, html_vars, lk_vars>>

NextDQ == Add \/ CollectBatch

\* A DomainQueues of its own; the engine stays as constructed.
InitQueues == InitLib /\ InitCrawl(<<>>, 0)

SpecDQ == InitQueues /\ [][NextDQ]_vars

\* DomainQueues with the history of the domains' first add.
NextOrder == AddKnown \/ CollectBatch

SpecOrder == InitQueues /\ [][NextOrder]_vars

(***************************************************************************)
(* main: the seed block (main.rs 202-211).                                 *)
(***************************************************************************)
\* One iteration of `for seed in seeds`, under the visited lock.
SeedStep ==
    /\ Running
    /\ main_pc = "seed"
    /\ seeds # <<>>
    /\ LET seed == Head(seeds)
           ins  == VisitedInsert(visited, seed)
       IN  /\ visited' = ins.set
           /\ IF ins.fresh
              THEN /\ discovered' = Append(discovered, seed)
                   /\ n_sent' = [n_sent EXCEPT ![seed] = @ + 1]
              ELSE UNCHANGED <<discovered, n_sent>>
    /\ seeds' = Tail(seeds)
    /\ UNCHANGED <<main_pc, buffer, processing, pages_count, metrics, proxies, current,
                   pending_analyses, pending_lock, spawned, log, worker, acct,
                   n_received, n_dispatched, n_fetched>>
    /\ UNCHANGED <<sink, db_semaphore, now, last_activity, watch, issued>>
    /\ UNCHANGED lib_vars

\* The seed loop is over: the lock is dropped and the fan-out starts.
SeedDone ==
    /\ Running
    /\ main_pc = "seed"
    /\ seeds = <<>>
    /\ main_pc' = "crawl"
    /\ UNCHANGED <<seeds, visited, discovered, buffer, processing, pages_count, metrics,
                   proxies, current, pending_analyses, pending_lock, spawned, log, worker,
                   acct, n_sent, n_received, n_dispatched, n_fetched>>
    /\ UNCHANGED <<sink, db_semaphore, now, last_activity, watch, issued>>
    /\ UNCHANGED lib_vars

(***************************************************************************)
(* batch_task (main.rs 168-200). processing_tx.send cannot fail while the  *)
(* fan-out holds the receiver, which it does for the whole run.            *)
(***************************************************************************)
\* buffer.shuffle; for link in buffer.drain(..) { processing_tx.send(link) }
Flush(buf) ==
    \E group \in Shuffles(buf) :
        /\ processing' = processing \o group
        /\ n_dispatched' = CountAll(n_dispatched, group)
        /\ buffer' = Drained(buf)

\* The recv arm, with BATCH_SIZE scaled to batch_size.
RecvArm(batch_size) ==
    /\ Running
    /\ discovered # <<>>
    /\ discovered' = Tail(discovered)
    /\ n_received' = [n_received EXCEPT ![Head(discovered)] = @ + 1]
    /\ LET pushed == Append(buffer, Head(discovered))
       IN  IF Len(pushed) >= batch_size
           THEN Flush(pushed)
           ELSE /\ buffer' = pushed
                /\ UNCHANGED <<processing, n_dispatched>>
    /\ UNCHANGED <<main_pc, seeds, visited, pages_count, metrics, proxies, current,
                   pending_analyses, pending_lock, spawned, log, worker, acct, n_sent,
                   n_fetched>>
    /\ UNCHANGED <<sink, db_semaphore, now, last_activity, watch, issued>>
    /\ UNCHANGED lib_vars

SchedRecv == RecvArm(BATCH_SIZE)

\* The interval.tick() arm.
SchedTick ==
    /\ Running
    /\ IF TickFlushes(buffer)
       THEN Flush(buffer)
       ELSE UNCHANGED <<buffer, processing, n_dispatched>>
    /\ UNCHANGED <<main_pc, seeds, visited, discovered, pages_count, metrics, proxies,
                   current, pending_analyses, pending_lock, spawned, log, worker, acct,
                   n_sent, n_received, n_fetched>>
    /\ UNCHANGED <<sink, db_semaphore, now, last_activity, watch, issued>>
    /\ UNCHANGED lib_vars

SpecBurstRecv == RecvArm(BurstBatchSize)

(***************************************************************************)
(* The fan-out (main.rs 215-278): one slot of for_each_concurrent, with    *)
(* process_page (390-468) and try_tunnel_request (338-388). A step runs    *)
(* from one await to the next.                                             *)
(***************************************************************************)
\* The variables no step of a slot changes.
slot_frame == <<main_pc, seeds, buffer, n_received, n_dispatched, proxies, now, watch, sink>>

\* The stream yields a URL to a free slot (the slots are alike: the first free
\* one takes it): the page cap (226-232).
Take(w) ==
    /\ Running
    /\ main_pc = "crawl"
    /\ worker[w].pc = "idle"
    /\ \A v \in Workers : v < w => worker[v].pc # "idle"
    /\ processing # <<>>
    /\ processing' = Tail(processing)
    /\ pages_count' = pages_count + 1
    /\ IF OverCap(pages_count + 1)
       THEN UNCHANGED <<worker, acct>>
       ELSE /\ worker' = [worker EXCEPT ![w] = [IdleWorker EXCEPT
                              !.pc = "page", !.url = Head(processing),
                              !.count = pages_count + 1]]
            /\ acct' = [acct EXCEPT ![w] = NoAcct]
    /\ UNCHANGED <<visited, discovered, metrics, current, pending_analyses, pending_lock,
                   spawned, log, n_sent, n_fetched>>
    /\ UNCHANGED <<db_semaphore, last_activity, issued>>
    /\ UNCHANGED slot_frame
    /\ UNCHANGED lib_vars

\* process_page is entered (395-401): last_activity is set, normalize_url(url)?,
\* then the loop calls try_tunnel_request, which counts the attempt and sends its
\* request (342-362).
PageStart(w) ==
    /\ Running
    /\ worker[w].pc = "page"
    /\ n_fetched' = [n_fetched EXCEPT ![worker[w].url] = @ + 1]
    /\ IF normalize_url(worker[w].url).ok
       THEN /\ metrics' = TunnelAttempt(metrics)
            /\ acct' = [acct EXCEPT ![w] =
                           Charged([@ EXCEPT !.tunnel_calls = @ + 1], metrics, metrics')]
            /\ worker' = [worker EXCEPT ![w].pc = "tunnel_wait"]
       ELSE /\ worker' = [worker EXCEPT ![w].pc = "finish"]
            /\ acct' = [acct EXCEPT ![w].end = "bad_url"]
            /\ UNCHANGED metrics
    /\ UNCHANGED <<visited, discovered, processing, pages_count, current,
                   pending_analyses, pending_lock, spawned, log, n_sent>>
    /\ last_activity' = now
    /\ UNCHANGED <<db_semaphore, issued>>
    /\ UNCHANGED slot_frame
    /\ UNCHANGED lib_vars

\* try_tunnel_request returns (362-387) and process_page's loop goes on (401-432):
\* Ok sets last_activity and leaves the loop; Err retries with the next
\* try_tunnel_request, or counts
\* the fallback, asks the pool for a proxy and sends the proxy request.
TunnelResponse(w) ==
    /\ Running
    /\ worker[w].pc = "tunnel_wait"
    /\ \E outcome \in TunnelOutcomes :
        IF outcome = "ok"
        THEN /\ worker' = [worker EXCEPT ![w].pc = "parse"]
             /\ acct' = [acct EXCEPT ![w].path = "tunnel"]
             /\ last_activity' = now
             /\ UNCHANGED <<metrics, current, issued>>
        ELSE LET tunnel_retries == worker[w].retries + 1
                 a1 == [acct[w] EXCEPT !.tunnel_fails = @ + 1]
             IN  IF RetryTunnel(tunnel_retries)
                 THEN /\ metrics' = TunnelAttempt(metrics)
                      /\ worker' = [worker EXCEPT ![w].retries = tunnel_retries]
                      /\ acct' = [acct EXCEPT ![w] = Charged(
                                     [a1 EXCEPT !.tunnel_calls = @ + 1], metrics, metrics')]
                      /\ UNCHANGED <<current, issued, last_activity>>
                 ELSE LET proxy == GetNextProxy(proxies, current)
                      IN  /\ metrics' = Fallback(metrics)
                          /\ current' = proxy.current
                          /\ issued' = IF proxy.some THEN Append(issued, proxy.index)
                                        ELSE issued
                          /\ UNCHANGED last_activity
                          /\ worker' = [worker EXCEPT
                                 ![w].pc = IF proxy.some THEN "proxy_wait" ELSE "finish",
                                 ![w].retries = tunnel_retries]
                          /\ acct' = [acct EXCEPT ![w] = Charged(
                                 [a1 EXCEPT !.pool_calls = @ + 1,
                                            !.proxy_reqs = @ + (IF proxy.some THEN 1 ELSE 0),
                                            !.end = IF proxy.some THEN @ ELSE "no_proxy"],
                                 metrics, metrics')]
    /\ UNCHANGED <<visited, discovered, processing, pages_count, pending_analyses,
                   pending_lock, spawned, log, n_sent, n_fetched>>
    /\ UNCHANGED db_semaphore
    /\ UNCHANGED slot_frame
    /\ UNCHANGED lib_vars

\* The proxy request returns (433-450).
ProxyResponse(w) ==
    /\ Running
    /\ worker[w].pc = "proxy_wait"
    /\ \E outcome \in ProxyOutcomes :
        /\ metrics' = ProxyFailed(metrics, outcome)
        /\ worker' = [worker EXCEPT ![w].pc = IF outcome = "ok" THEN "parse" ELSE "finish"]
        /\ acct' = [acct EXCEPT ![w] = Charged(
                       [@ EXCEPT !.path = IF outcome = "ok" THEN "proxy" ELSE @,
                                 !.end = IF outcome = "ok" THEN @ ELSE outcome],
                       metrics, metrics')]
    /\ UNCHANGED <<visited, discovered, processing, pages_count, current,
                   pending_analyses, pending_lock, spawned, log, n_sent, n_fetched>>
    /\ UNCHANGED <<db_semaphore, last_activity, issued>>
    /\ UNCHANGED slot_frame
    /\ UNCHANGED lib_vars

\* parse_html(text, base_url)? and the success count (455-467).
Parse(w) ==
    /\ Running
    /\ worker[w].pc = "parse"
    /\ \/ \E child_links \in LinkSets :
            /\ metrics' = FetchAdd(metrics, "success")
            /\ worker' = [worker EXCEPT ![w].pc = "push", ![w].links = child_links]
            /\ acct' = [acct EXCEPT ![w] = Charged([@ EXCEPT !.end = "ok"], metrics, metrics')]
       \/ /\ worker' = [worker EXCEPT ![w].pc = "finish"]
          /\ acct' = [acct EXCEPT ![w].end = "parse_err"]
          /\ UNCHANGED metrics
    /\ UNCHANGED <<visited, discovered, processing, pages_count, current,
                   pending_analyses, pending_lock, spawned, log, n_sent, n_fetched>>
    /\ UNCHANGED <<db_semaphore, last_activity, issued>>
    /\ UNCHANGED slot_frame
    /\ UNCHANGED lib_vars

\* The Ok arm takes the pending_analyses lock, pushes the record and, at
\* BATCH_SIZE records (scaled to batch_size), drains the first BATCH_SIZE, acquires
\* a permit and spawns the save (238-253). `_permit` is a local of the `if` block:
\* it is dropped where the block ends, right after tokio::spawn, and the spawned
\* task holds none.
PushArm(w, batch_size) ==
    /\ Running
    /\ worker[w].pc = "push"
    /\ pending_lock = 0
    /\ pending_lock' = w
    /\ LET pushed == Append(pending_analyses, worker[w].url)
       IN  IF BatchReady(Len(pushed), batch_size)
           THEN /\ db_semaphore >= 1
                /\ spawned' = Append(spawned, DrainBatch(pushed, batch_size).batch)
                /\ pending_analyses' = DrainBatch(pushed, batch_size).rest
                /\ db_semaphore' = PermitDropped(PermitAcquired(db_semaphore))
           ELSE /\ pending_analyses' = pushed
                /\ UNCHANGED <<spawned, db_semaphore>>
    /\ acct' = [acct EXCEPT ![w].pushes = @ + 1]
    /\ worker' = [worker EXCEPT ![w].pc = "links"]
    /\ UNCHANGED <<visited, discovered, processing, pages_count, metrics, current, log,
                   n_sent, n_fetched>>
    /\ UNCHANGED <<last_activity, issued>>
    /\ UNCHANGED slot_frame
    /\ UNCHANGED lib_vars

Push(w) == PushArm(w, BATCH_SIZE)

SpecSavePush(w) == PushArm(w, SaveBatchSize)

\* One iteration of `for link in child_links`, in the order the HashSet gave
\* the links: visited is locked, the link inserted and, if new, sent (255-260).
LinkStep(w) ==
    /\ Running
    /\ worker[w].pc = "links"
    /\ \E link \in worker[w].links :
        LET ins == VisitedInsert(visited, link)
        IN  /\ visited' = ins.set
            /\ IF ins.fresh
               THEN /\ discovered' = Append(discovered, link)
                    /\ n_sent' = [n_sent EXCEPT ![link] = @ + 1]
               ELSE UNCHANGED <<discovered, n_sent>>
            /\ acct' = [acct EXCEPT ![w].known = IF ins.fresh THEN @ ELSE @ \cup {link}]
            /\ worker' = [worker EXCEPT ![w].links = @ \ {link}]
    /\ UNCHANGED <<processing, pages_count, metrics, current, pending_analyses,
                   pending_lock, spawned, log, n_fetched>>
    /\ UNCHANGED <<db_semaphore, last_activity, issued>>
    /\ UNCHANGED slot_frame
    /\ UNCHANGED lib_vars

\* The Ok arm ends: the pending_analyses guard is dropped.
LinksDone(w) ==
    /\ Running
    /\ worker[w].pc = "links"
    /\ worker[w].links = {}
    /\ pending_lock' = 0
    /\ worker' = [worker EXCEPT ![w].pc = "finish"]
    /\ UNCHANGED <<visited, discovered, processing, pages_count, metrics, current,
                   pending_analyses, spawned, log, acct, n_sent, n_fetched>>
    /\ UNCHANGED <<db_semaphore, last_activity, issued>>
    /\ UNCHANGED slot_frame
    /\ UNCHANGED lib_vars

\* An end of the slot's future that lets an error of process_page end the fan-out.
FinishMutAbortsOnErr(w) ==
    /\ Running
    /\ worker[w].pc = "finish"
    /\ main_pc' = IF acct[w].end = "ok" THEN main_pc ELSE "aborted"
    /\ worker' = [worker EXCEPT ![w] = IdleWorker]
    /\ acct' = [acct EXCEPT ![w] = NoAcct]
    /\ UNCHANGED <<seeds, visited, discovered, buffer, processing, pages_count, metrics,
                   proxies, current, pending_analyses, pending_lock, spawned, sink,
                   db_semaphore, log, now, last_activity, watch, issued,
                   n_sent, n_received, n_dispatched, n_fetched>>
    /\ UNCHANGED lib_vars

\* The end of the slot's future: the "Batch n complete" entry (267-274).
Finish(w) ==
    /\ Running
    /\ worker[w].pc = "finish"
    /\ log' = IF worker[w].count % BATCH_SIZE = 0
              THEN Append(log, [entry |-> "batch", n |-> worker[w].count])
              ELSE log
    /\ worker' = [worker EXCEPT ![w] = IdleWorker]
    /\ acct' = [acct EXCEPT ![w] = NoAcct]
    /\ UNCHANGED <<visited, discovered, processing, pages_count, metrics, current,
                   pending_analyses, pending_lock, spawned, n_sent, n_fetched>>
    /\ UNCHANGED <<db_semaphore, last_activity, issued>>
    /\ UNCHANGED slot_frame
    /\ UNCHANGED lib_vars

(***************************************************************************)
(* The spawned save_analyses_batch tasks (main.rs 246-252).                *)
(***************************************************************************)
\* sequence s without its i-th element.
RemoveAt(s, i) == SubSeq(s, 1, i - 1) \o SubSeq(s, i + 1, Len(s))

\* An Err arm that pushes the records of the batch back on the buffer.
SaveErrMutRequeue(pending, batch) == pending \o batch

\* The Err arm of the spawned task (248-250): eprintln!, and the batch is dropped
\* with the task; the buffer is as it was.
SaveErr(pending, batch) == pending

\* One of the running saves ends: its records were put to the bucket, or its
\* error was printed. The task holds no permit to give back.
SaveDone ==
    /\ Running
    /\ \E i \in 1..Len(spawned), outcome \in {"ok", "err"} :
        /\ spawned' = RemoveAt(spawned, i)
        /\ sink' = IF outcome = "ok" THEN Append(sink, spawned[i]) ELSE sink
        /\ pending_analyses' = IF outcome = "ok" THEN pending_analyses
                               ELSE SaveErr(pending_analyses, spawned[i])
    /\ UNCHANGED <<main_pc, seeds, visited, discovered, buffer, processing, pages_count,
                   metrics, proxies, current, pending_lock,
                   db_semaphore, log, now, last_activity, watch, issued, worker, acct,
                   n_sent, n_received, n_dispatched, n_fetched>>
    /\ UNCHANGED lib_vars

(***************************************************************************)
(* The inactivity checker task (main.rs 125-147) and the clock. The ticks  *)
(* of its interval are CHECK_INTERVAL apart, the first at once; the task   *)
(* runs when its tick is due, before the clock moves on.                   *)
(***************************************************************************)
\* A comparison that misses the timeout itself: `>`.
TimedOutMutLate(idle_time) == idle_time > INACTIVITY_TIMEOUT

\* A comparison that never holds.
TimedOutMutNever(idle_time) == FALSE

\* `idle_time >= INACTIVITY_TIMEOUT`
TimedOut(idle_time) == idle_time >= INACTIVITY_TIMEOUT

\* interval.tick() returns: last_activity is read under its lock, and
\* idle_time = last_activity.elapsed() decides (132-136).
WatchCheck ==
    /\ Running
    /\ watch.pc = "tick"
    /\ now = watch.next
    /\ LET idle_time == now - last_activity
       IN  watch' = IF TimedOut(idle_time)
                    THEN [pc |-> "exit", idle_time |-> idle_time, next |-> now + CHECK_INTERVAL]
                    ELSE [pc |-> "tick", idle_time |-> 0, next |-> now + CHECK_INTERVAL]
    /\ UNCHANGED <<main_pc, seeds, visited, discovered, buffer, processing, pages_count,
                   metrics, proxies, current, pending_analyses, pending_lock, spawned,
                   sink, db_semaphore, log, now, last_activity, issued, worker, acct,
                   n_sent, n_received, n_dispatched, n_fetched>>
    /\ UNCHANGED lib_vars

\* The timeout arm (137-143): the logger is locked, the entry added, the buffer
\* flushed, and std::process::exit(0) ends every task.
WatchExit ==
    /\ Running
    /\ watch.pc = "exit"
    /\ log' = Append(log, [entry |-> "idle", n |-> watch.idle_time])
    /\ main_pc' = "exited"
    /\ watch' = [watch EXCEPT !.pc = "done"]
    /\ UNCHANGED <<seeds, visited, discovered, buffer, processing, pages_count,
                   metrics, proxies, current, pending_analyses, pending_lock, spawned,
                   sink, db_semaphore, now, last_activity, issued, worker, acct,
                   n_sent, n_received, n_dispatched, n_fetched>>
    /\ UNCHANGED lib_vars

\* What the tasks wait for takes time: a response of the tunnel or of a proxy, a
\* URL on a channel, the end of an upload, a tick of the checker. A step between
\* two such waits takes none on the clock: it is taken before the clock moves on;
\* and so is the flush of batch_task's buffer, whose interval of 1 s is shorter
\* than the unit of the clock.
Waiting ==
    /\ main_pc = "crawl"
    /\ discovered = <<>>
    /\ buffer = <<>>
    /\ \A w \in Workers : worker[w].pc \in {"idle", "tunnel_wait", "proxy_wait"}
    /\ processing = <<>> \/ \A w \in Workers : worker[w].pc # "idle"

\* The clock moves on by one unit, up to max_time, when every task waits and no
\* tick of the checker is due.
ClockStep(max_time) ==
    /\ Running
    /\ now < max_time
    /\ watch.pc = "tick"
    /\ now < watch.next
    /\ Waiting
    /\ now' = now + 1
    /\ UNCHANGED <<main_pc, seeds, visited, discovered, buffer, processing, pages_count,
                   metrics, proxies, current, pending_analyses, pending_lock, spawned,
                   sink, db_semaphore, log, last_activity, watch, issued, worker, acct,
                   n_sent, n_received, n_dispatched, n_fetched>>
    /\ UNCHANGED lib_vars

TimePasses == ClockStep(MaxTime)

\* A time no run reaches: each of the MAX_PAGES pages and the start of the run
\* give the checker at most INACTIVITY_TIMEOUT and the wait for its next tick.
EndTime == (MAX_PAGES + 1) * (INACTIVITY_TIMEOUT + CHECK_INTERVAL)

SpecTermTimePasses == ClockStep(EndTime)

(***************************************************************************)
(* The specifications of the engine.                                       *)
(***************************************************************************)
\* The seed files of Spec: a repeated line; a line that is no URL.
SeedLists == {<<URL1, URL3, URL1>>, <<BadSeed, URL2>>}

Init ==
    /\ InitLib
    /\ \E seed_list \in SeedLists, pool_len \in {0, MaxProxies} : InitCrawl(seed_list, pool_len)

Next ==
    \/ SeedStep
    \/ SeedDone
    \/ SchedRecv
    \/ SchedTick
    \/ \E w \in Workers :
        \/ Take(w)
        \/ PageStart(w)
        \/ TunnelResponse(w)
        \/ ProxyResponse(w)
        \/ Parse(w)
        \/ Push(w)
        \/ LinkStep(w)
        \/ LinksDone(w)
        \/ Finish(w)

\* The crawl: the seed loader, the scheduler and the fan-out. The spawned saves
\* give nothing back to the crawl (no step of it reads spawned or sink); they run
\* in SpecSave.
Spec == Init /\ [][Next]_vars

\* batch_task is a task of its own: its select! takes an arm that stays ready.
SpecLive == Spec /\ WF_vars(SchedRecv) /\ WF_vars(SchedTick)

\* The seed block and batch_task on a seed file of BurstLen URLs of one host.
InitBurst == InitLib /\ InitCrawl(BurstSeeds, 0)

NextBurst == SeedStep \/ SeedDone \/ SpecBurstRecv \/ SchedTick

SpecBurst == InitBurst /\ [][NextBurst]_vars

\* A step of fan-out slot w.
WorkerStep(w) ==
    \/ Take(w)
    \/ PageStart(w)
    \/ TunnelResponse(w)
    \/ ProxyResponse(w)
    \/ Parse(w)
    \/ Push(w)
    \/ LinkStep(w)
    \/ LinksDone(w)
    \/ Finish(w)

\* The runtime polls every future that can go on: main with its seed loop and
\* the slots of the fan-out; and every request ends, by its response or by the
\* 30 s timeout of its client.
SpecFair ==
    /\ SpecLive
    /\ WF_vars(SeedStep \/ SeedDone)
    /\ \A w \in Workers : WF_vars(WorkerStep(w))

\* The engine with its inactivity checker and the clock, on an empty seed file
\* and on a seed file of one URL.
WatchSeedLists == {<<>>, <<URL3>>}

InitWatch ==
    /\ InitLib
    /\ \E seed_list \in WatchSeedLists : InitCrawl(seed_list, MaxProxies)

NextWatch == Next \/ WatchCheck \/ WatchExit \/ TimePasses

SpecWatch == InitWatch /\ [][NextWatch]_vars

\* The engine with its inactivity checker and a clock that does not stop before
\* EndTime. The runtime polls every task that can go on, every request ends
\* by its response or its timeout, and the timers tick.
NextTerm == Next \/ WatchCheck \/ WatchExit \/ SpecTermTimePasses

SpecTerm ==
    /\ InitWatch
    /\ [][NextTerm]_vars
    /\ WF_vars(Next \/ WatchCheck \/ WatchExit)
    /\ WF_vars(SpecTermTimePasses)

\* The engine with a batch of SaveBatchSize records.
InitSave == InitLib /\ InitCrawl(<<URL1, URL3>>, MaxProxies)

NextSave ==
    \/ SeedStep
    \/ SeedDone
    \/ SchedRecv
    \/ SchedTick
    \/ \E w \in Workers :
        \/ Take(w)
        \/ PageStart(w)
        \/ TunnelResponse(w)
        \/ ProxyResponse(w)
        \/ Parse(w)
        \/ SpecSavePush(w)
        \/ LinkStep(w)
        \/ LinksDone(w)
        \/ Finish(w)
    \/ SaveDone

SpecSave == InitSave /\ [][NextSave]_vars

\* A ProxyManager of 0..MaxPool proxies and its callers.
InitProxy ==
    /\ InitLib
    /\ \E pool_len \in 0..MaxPool : InitCrawl(<<>>, pool_len)

NextProxy == \E c \in Callers : GetNextProxyCall(c)

SpecProxy == InitProxy /\ [][NextProxy]_vars

\* Calls of RequestFingerprint::new, in any order.
InitFingerprint == InitLib /\ InitCrawl(<<>>, 0)

NextFingerprint == FingerprintNew

SpecFingerprint == InitFingerprint /\ [][NextFingerprint]_vars

\* A call of save_analyses_batch on a slice of raw records.
InitSink ==
    /\ InitDQ /\ InitPM /\ InitFP /\ InitCls /\ InitHtml /\ InitLk
    /\ InitCrawl(<<>>, 0)
    /\ analyses \in Slices
    /\ uploads = <<>>
    /\ save_pc = "run"

NextSink == UploadChunk \/ SaveReturns

SpecSink == InitSink /\ [][NextSink]_vars

\* One response, given to each of the two fetch paths.
InitClassify ==
    /\ InitDQ /\ InitPM /\ InitFP /\ InitDB /\ InitHtml /\ InitLk
    /\ InitCrawl(<<>>, 0)
    /\ cls_resp \in Responses
    /\ cls_tunnel = "none"
    /\ cls_proxy = "none"

NextClassify == ClassifyTunnel \/ ClassifyProxy

SpecClassify == InitClassify /\ [][NextClassify]_vars

\* parse_html on each document.
InitParse ==
    /\ InitDQ /\ InitPM /\ InitFP /\ InitDB /\ InitCls /\ InitLk
    /\ InitCrawl(<<>>, 0)
    /\ html_doc \in Documents
    /\ html_pos = 0
    /\ html_links = {}
    /\ html_canonical = None
    /\ html_ret = None

NextParse == HandleElement \/ ParseReturns

SpecParse == InitParse /\ [][NextParse]_vars

\* The tasks and their locks.
InitLocks == InitLib /\ InitCrawl(<<>>, 0)

NextLocks ==
    \/ \E t \in LockTasks : LkLock(t)
    \/ LkSeedBlock
    \/ \E w \in Workers :
        \/ LkTake(w)
        \/ LkActivityWritten(w)
        \/ LkFetched(w)
        \/ LkActivityOkWritten(w)
        \/ LkPushed(w)
        \/ LkAcquirePermit(w)
        \/ LkSpawn(w)
        \/ LkInserted(w)
        \/ LkArmEnd(w)
        \/ LkAfter(w)
        \/ LkLogged(w)
    \/ LkFlushed
    \/ LkEmitted
    \/ LkCheckerRead
    \/ LkCheckerExit

SpecLocks == InitLocks /\ [][NextLocks]_vars

(***************************************************************************)
(* C1: after any sequence of add and collect_batch calls, total equals the *)
(* sum of the lengths of all per-host queues.                              *)
(***************************************************************************)
C1_TotalIsSumOfQueueLengths == dq.total = SumLen(dq.queues, DOMAIN dq.queues)

\* A collect_batch call has popped URLs and left others queued, on two hosts.
C1_Witness ==
    /\ dq_batch # <<>>
    /\ dq.total > 0
    /\ Cardinality(DOMAIN dq.queues) = 2

(***************************************************************************)
(* C2: in the output of one collect_batch(max_per_domain) call no host     *)
(* contributes more than max_per_domain URLs, and the URLs of one host     *)
(* form one contiguous run.                                                *)
(***************************************************************************)
C2_AtMostMaxPerDomainContiguous ==
    dq_max >= 0 =>
        /\ \A h \in Hosts : Count(dq_from, h) <= dq_max
        /\ \A i, j \in 1..Len(dq_from) :
               (i < j /\ dq_from[i] = dq_from[j]) =>
                   \A k \in i..j : dq_from[k] = dq_from[i]

\* A call that cut one host at max_per_domain = 2, with URLs of that host left
\* over, and also returned a URL of the other host.
C2_Witness ==
    /\ dq_max = 2
    /\ \E h \in Hosts :
           /\ Count(dq_from, h) = 2
           /\ h \in DOMAIN dq.queues /\ dq.queues[h] # <<>>
           /\ \E g \in Hosts \ {h} : Count(dq_from, g) >= 1

(***************************************************************************)
(* C3: every group of URLs that batch_task pushes to the processing        *)
(* channel in one flush (at BATCH_SIZE pending URLs or at the tick)        *)
(* contains at most 5 URLs of any single host. A step dispatches at most   *)
(* one flush, so the URLs dispatched by a step are one group.              *)
(***************************************************************************)
RECURSIVE SumOver(_, _)
\* Sum of n[u] over the URLs u of set us.
SumOver(n, us) ==
    IF us = {} THEN 0
    ELSE LET u == CHOOSE x \in us : TRUE
         IN  n[u] + SumOver(n, us \ {u})

\* Of the sends on processing counted by n, those of URLs of host h.
OfHost(n, h) == SumOver(n, {u \in AllURLs : extract_domain(u) = h})

C3_FlushHasAtMostFivePerHost ==
    [][\A h \in Hosts : OfHost(n_dispatched', h) - OfHost(n_dispatched, h) <= 5]_vars

(***************************************************************************)
(* C4: a given URL string is sent on the discovered channel at most once   *)
(* in a run, by the seed loop and the link loops of all workers together.  *)
(***************************************************************************)
C4_SentOnDiscoveredAtMostOnce == \A u \in AllURLs : n_sent[u] <= 1

\* The seed file named URL1 twice, and a worker found URL1 again as a link of
\* a page: URL1 was sent once.
C4_Witness ==
    /\ n_sent[URL1] = 1
    /\ main_pc = "crawl"
    /\ BadSeed \notin visited
    /\ \E w \in Workers : URL1 \in acct[w].known

(***************************************************************************)
(* C5: every URL sent to the processing channel was inserted into the      *)
(* visited set and sent on discovered before, and was received from        *)
(* discovered by the scheduler: the scheduler neither invents nor          *)
(* duplicates a URL.                                                       *)
(***************************************************************************)
C5_DispatchedWereDiscovered ==
    \A u \in AllURLs :
        /\ n_dispatched[u] <= n_received[u]
        /\ n_received[u] <= n_sent[u]
        /\ n_sent[u] > 0 => u \in visited

\* A seed and a link found on a page have both been dispatched.
C5_Witness ==
    /\ n_dispatched[URL1] = 1
    /\ n_dispatched[URL2] = 1
    /\ BadSeed \notin visited

(***************************************************************************)
(* C6: process_page is invoked at most once for each URL string; a URL     *)
(* that ended in an error is not fetched again when a later page links to  *)
(* it.                                                                     *)
(***************************************************************************)
C6_FetchedAtMostOnce == \A u \in AllURLs : n_fetched[u] <= 1

\* URL1 was fetched and failed on the proxy; the page of URL3, fetched after
\* it, linked to URL1, and its link loop has run.
C6_Witness ==
    /\ metrics.failed = 1
    /\ n_fetched[URL1] = 1
    /\ \E w \in Workers :
           /\ worker[w].url = URL3
           /\ worker[w].pc = "finish"
           /\ URL1 \in acct[w].known
           /\ \A v \in Workers \ {w} : worker[v].pc = "idle"

(***************************************************************************)
(* C7: every URL that enters the discovered channel is eventually sent to  *)
(* the processing channel, as long as the scheduler task runs and its      *)
(* tick fires.                                                             *)
(***************************************************************************)
C7_DiscoveredIsEventuallyDispatched ==
    \A u \in CrawlURLs : (n_sent[u] > 0) ~> (n_dispatched[u] > 0)

\* A link found on a page went through the scheduler, and nothing is left in
\* the discovered channel or the buffer.
C7_Witness ==
    /\ BadSeed \notin visited
    /\ main_pc = "crawl"
    /\ n_sent[URL2] = 1
    /\ n_dispatched[URL2] = 1
    /\ discovered = <<>>
    /\ buffer = <<>>

(***************************************************************************)
(* C8: for each processed URL the tunnel is attempted at most              *)
(* MAX_TUNNEL_RETRIES times; the proxy fallback is attempted at most once  *)
(* and only after MAX_TUNNEL_RETRIES failed tunnel attempts; a URL whose   *)
(* body came from the tunnel never touched the proxy pool.                 *)
(***************************************************************************)
C8_TunnelTwiceThenProxyOnce ==
    \A w \in Workers :
        /\ acct[w].tunnel_calls <= MAX_TUNNEL_RETRIES
        /\ acct[w].pool_calls <= 1
        /\ acct[w].proxy_reqs <= acct[w].pool_calls
        /\ acct[w].pool_calls = 1 =>
               /\ acct[w].tunnel_calls = MAX_TUNNEL_RETRIES
               /\ acct[w].tunnel_fails = MAX_TUNNEL_RETRIES
        /\ acct[w].path = "tunnel" =>
               /\ acct[w].pool_calls = 0
               /\ acct[w].tunnel_fails = acct[w].tunnel_calls - 1

\* One URL got its body from the tunnel on the second attempt, another from a
\* proxy after two failed attempts.
C8_Witness ==
    \E w, v \in Workers :
        /\ acct[w].path = "tunnel" /\ acct[w].tunnel_calls = 2
        /\ acct[v].path = "proxy" /\ acct[v].proxy_reqs = 1

(***************************************************************************)
(* C9, as claimed: the tunnel counter increases by one per tunnel attempt  *)
(* and the proxy counter by one per URL that falls back; a URL whose two   *)
(* tunnel attempts failed and whose proxy request succeeded has changed    *)
(* the counters by tunnel +2, proxy +1, success +1, failed +0 and has      *)
(* produced exactly one record.                                            *)
(***************************************************************************)
RetryAccounting(w) ==
    /\ acct[w].d.tunnel = acct[w].tunnel_calls
    /\ acct[w].d.proxy = acct[w].pool_calls

FallbackSuccessAccounting(w) ==
    /\ acct[w].d.tunnel = 2
    /\ acct[w].d.proxy = 1
    /\ acct[w].d.success = 1
    /\ acct[w].d.failed = 0
    /\ acct[w].pushes = 1

C10_SuccessPlusFailedAtMostTotal == metrics.success + metrics.failed <= metrics.total

\* Two workers ran side by side: the URL of one has succeeded, the URL of the
\* other has failed on its proxy.
C10_Witness ==
    /\ metrics.success = 1
    /\ metrics.failed = 1
    /\ \E w, v \in Workers :
           /\ acct[w].end = "ok"
           /\ acct[v].end \in {"forbidden", "send_err"}

(***************************************************************************)
(* C11: at most MAX_PAGES URLs are ever fetched in a run; a worker whose   *)
(* arrival number exceeds MAX_PAGES returns without a tunnel or proxy      *)
(* request, without changing a metrics counter or last_activity, and       *)
(* without touching the visited set or the pending buffer.                 *)
(***************************************************************************)
\* The process_page invocations of the run.
Fetched == SumOver(n_fetched, AllURLs)

C11_AtMostMaxPagesFetched ==
    /\ [](/\ Fetched <= MAX_PAGES
          /\ \A w \in Workers : worker[w].pc # "idle" => worker[w].count <= MAX_PAGES)
    /\ [][(pages_count' # pages_count /\ pages_count' > MAX_PAGES) =>
              /\ worker' = worker
              /\ acct' = acct
              /\ metrics' = metrics
              /\ issued' = issued
              /\ last_activity' = last_activity
              /\ visited' = visited
              /\ pending_analyses' = pending_analyses]_vars

\* MAX_PAGES URLs were fetched and a further URL has arrived.
C11_Witness ==
    /\ pages_count > MAX_PAGES
    /\ Fetched = MAX_PAGES

(***************************************************************************)
(* C12: whenever the run ends, every record still in the pending buffer    *)
(* has been handed to the sink before the process terminates.              *)
(***************************************************************************)
C12_PendingFlushedAtExit == main_pc = "exited" => pending_analyses = <<>>

(***************************************************************************)
(* C13: with an empty seed list the run terminates at once and cleanly,    *)
(* without waiting for the inactivity timeout: it is not the inactivity    *)
(* checker that ends it.                                                   *)
(***************************************************************************)
C13_EmptySeedsEndWithoutTimeout ==
    (seeds = <<>> /\ visited = {}) => main_pc # "exited"

C15_AtMostDbConcurrencyWrites == Len(spawned) <= DB_CONCURRENCY

(***************************************************************************)
(* C16: get_next_proxy returns None if and only if the pool is empty;      *)
(* otherwise the k-th call in the order of the increments (k = 0, 1, ...)  *)
(* returns the proxy at index k mod len, and any len * n consecutive       *)
(* increments return every proxy exactly n times.                          *)
(***************************************************************************)
\* How often index p is among the n entries of s from position i on.
InWindow(s, i, n, p) == Cardinality({j \in i..(i + n - 1) : s[j] = p})

C16_RoundRobin ==
    /\ \A c \in Callers : pm_last[c].called => (pm_last[c].some <=> proxies # 0)
    /\ proxies = 0 => issued = <<>>
    /\ proxies > 0 =>
           /\ Len(issued) = current
           /\ \A k \in 0..(Len(issued) - 1) : issued[k + 1] = k % proxies
           /\ \A i \in 1..Len(issued), n \in 1..MaxCalls :
                  (i + proxies * n - 1 <= Len(issued)) =>
                      \A p \in 0..(proxies - 1) : InWindow(issued, i, proxies * n, p) = n

\* Callers have gone twice round a pool of MaxPool proxies, and two of them hold
\* different proxies.
C16_Witness ==
    /\ proxies = MaxPool
    /\ Len(issued) = 2 * MaxPool
    /\ \E c, d \in Callers :
           /\ pm_last[c].some /\ pm_last[d].some
           /\ pm_last[c].index # pm_last[d].index

(***************************************************************************)
(* C17: every record put to the bucket has all of its text fields free of  *)
(* control characters and NULs, whatever the raw text was; the records of  *)
(* the caller keep the raw text, as only save_analyses_batch sanitizes.    *)
(***************************************************************************)
Sanitized(text) == \A i \in 1..Len(text) : ~is_control(text[i]) /\ text[i] # 0

SanitizedRecord(r) ==
    /\ Sanitized(r.url) /\ Sanitized(r.language) /\ Sanitized(r.title)
    /\ \A i \in 1..Len(r.meta_tags) :
           Sanitized(r.meta_tags[i].name) /\ Sanitized(r.meta_tags[i].content)
    /\ r.canonical_url.some => Sanitized(r.canonical_url.url)
    /\ Sanitized(r.content_text)

C17_UploadsAreSanitized ==
    /\ [](\A k \in 1..Len(uploads) : \A i \in 1..Len(uploads[k]) :
              SanitizedRecord(uploads[k][i]))
    /\ [][analyses' = analyses]_vars

\* Two raw records with control characters were uploaded, and the slice still
\* holds them raw.
C17_Witness ==
    /\ save_pc = "ok"
    /\ Len(analyses) = 2
    /\ ~SanitizedRecord(analyses[1])
    /\ ~SanitizedRecord(analyses[2])
    /\ analyses[1].canonical_url.url = <<65, 133>>
    /\ analyses[2].meta_tags[1].name = <<0, 65>>

(***************************************************************************)
(* C18: an error while processing one URL (normalization, proxy failure,   *)
(* no proxy, body read, HTML parse) is confined to that URL: the step that *)
(* ends with the error and the end of that worker leave the fan-out, the   *)
(* processing channel and every other worker as they are, and the fan-out  *)
(* goes on taking: the processing channel is emptied again and again.      *)
(***************************************************************************)
PageErrors == {"bad_url", "no_proxy", "forbidden", "send_err", "body_err", "parse_err"}

C18_ErrorsAreConfinedToTheirURL ==
    /\ [][\A w \in Workers :
              (\/ acct'[w].end \in PageErrors /\ acct[w].end # acct'[w].end
               \/ acct[w].end \in PageErrors /\ worker'[w] # worker[w])
                  => /\ main_pc' = main_pc
                     /\ processing' = processing
                     /\ \A v \in Workers \ {w} : worker'[v] = worker[v]]_vars
    /\ []<>(processing = <<>>)

\* The first URL failed on its proxy and its worker has ended; the second URL was
\* taken by the fan-out after that.
C18_Witness ==
    /\ main_pc = "crawl"
    /\ metrics.failed = 1
    /\ worker[1].pc = "page"
    /\ worker[1].count = 2

(***************************************************************************)
(* C19: RequestFingerprint::new is deterministic: two calls with the same  *)
(* proxy IP and the same URL return the same user_agent and the same       *)
(* referrer, whatever calls were made in between.                          *)
(***************************************************************************)
C19_FingerprintIsDeterministic ==
    \A pair \in IPs \X FpURLs : Cardinality(fp_seen[pair]) <= 1

\* new was called for every IP and URL, and there are fingerprints with and
\* without a referrer and of both catalogues.
C19_Witness ==
    /\ \A pair \in IPs \X FpURLs : fp_seen[pair] # {}
    /\ \E p, q \in IPs \X FpURLs :
           /\ p[2] = q[2]
           /\ \E f \in fp_seen[p], g \in fp_seen[q] : f.user_agent # g.user_agent
    /\ \E p \in IPs \X FpURLs : \E f \in fp_seen[p] : f.referrer.some

(***************************************************************************)
(* C20: the metric total_left exists and at all times equals the URLs      *)
(* enqueued on discovered minus the URLs processed successfully.           *)
(***************************************************************************)
C20_TotalLeftTracksQueueDepth ==
    /\ "total_left" \in DOMAIN metrics
    /\ metrics.total_left = SumOver(n_sent, AllURLs) - metrics.success

(***************************************************************************)
(* Steps of DomainQueues, as they show in two successive states: add is    *)
(* the one call that raises total; every other step of a DomainQueues      *)
(* that has seen a collect_batch call is a collect_batch call.             *)
(***************************************************************************)
AddStep == dq'.total = dq.total + 1

CollectStep == dq_max' >= 0 /\ ~AddStep

RECURSIVE Prefixes(_, _, _)
\* The first min(len, m) URLs of the queue of each host of order, host by host.
Prefixes(queues, order, m) ==
    IF order = <<>> THEN <<>>
    ELSE LET queue == queues[Head(order)]
         IN  SubSeq(queue, 1, Min(Len(queue), m)) \o Prefixes(queues, Tail(order), m)

(***************************************************************************)
(* C21: collect_batch(m) returns the concatenation, over the hosts of the  *)
(* ordering list as it was before the call, of the first min(len, m) URLs  *)
(* of each host's queue in the order of their adds; with m = 0 or with     *)
(* every queue empty it returns the empty list.                            *)
(***************************************************************************)
C21_BatchIsPrefixesInHostOrder ==
    [][CollectStep =>
          /\ dq_batch' = Prefixes(dq.queues, dq.order, dq_max')
          /\ (dq_max' = 0 \/ \A h \in DOMAIN dq.queues : dq.queues[h] = <<>>)
                 => dq_batch' = <<>>]_vars

\* A call with max_per_domain = 1 returned one URL of each of two hosts and left
\* URLs of the first of them queued.
C21_Witness ==
    /\ dq_max = 1
    /\ Len(dq_batch) = 2
    /\ dq_from[1] # dq_from[2]
    /\ dq.queues[dq_from[1]] # <<>>

(***************************************************************************)
(* C22: a collect_batch call lowers total, and the sum of the queue        *)
(* lengths, by the length of the returned batch; each queue is left with   *)
(* the URLs that were not returned, in their order, and no queue gains a   *)
(* URL or appears.                                                         *)
(***************************************************************************)
C22_CollectRemovesExactlyTheBatch ==
    [][CollectStep =>
          /\ dq'.total = dq.total - Len(dq_batch')
          /\ SumLen(dq'.queues, DOMAIN dq'.queues)
                 = SumLen(dq.queues, DOMAIN dq.queues) - Len(dq_batch')
          /\ DOMAIN dq'.queues = DOMAIN dq.queues
          /\ \A h \in DOMAIN dq.queues :
                 dq'.queues[h] = SubSeq(dq.queues[h], Count(dq_from', h) + 1,
                                        Len(dq.queues[h]))]_vars

\* A call returned URLs and left two or more URLs of one host queued.
C22_Witness ==
    /\ dq_max = 1
    /\ \E h \in DOMAIN dq.queues :
           /\ Count(dq_from, h) = 1
           /\ Len(dq.queues[h]) >= 2

(***************************************************************************)
(* C23: a collect_batch call on a non-empty ordering list leaves the list  *)
(* rotated left by one position: the former first host is last, also when  *)
(* its queue is empty now; on an empty ordering list the call returns an   *)
(* empty batch and changes nothing.                                        *)
(***************************************************************************)
C23_CollectRotatesLeftByOne ==
    [][CollectStep =>
          IF dq.order = <<>>
          THEN dq_batch' = <<>> /\ dq' = dq
          ELSE /\ Len(dq'.order) = Len(dq.order)
               /\ \A i \in 1..Len(dq.order) :
                      dq'.order[i] = dq.order[(i % Len(dq.order)) + 1]]_vars

\* The call drained the first of three hosts, which is the last one now.
C23_Witness ==
    /\ Len(dq.order) = 3
    /\ dq_batch # <<>>
    /\ dq_from[1] = dq.order[3]
    /\ dq.queues[dq.order[3]] = <<>>
    /\ dq.queues[dq.order[1]] # <<>>

\* s is t rotated by some number of positions.
IsCyclicShift(s, t) ==
    /\ Len(s) = Len(t)
    /\ s # <<>> => \E k \in 0..(Len(t) - 1) :
                       \A i \in 1..Len(t) : s[i] = t[((i - 1 + k) % Len(t)) + 1]

(***************************************************************************)
(* C24, as claimed: after any sequence of add and collect_batch calls the  *)
(* ordering list is a cyclic shift of the known hosts in the order of      *)
(* their first insertion.                                                  *)
(***************************************************************************)
C24_AsClaimed == IsCyclicShift(dq.order, dq_known)

(***************************************************************************)
(* C24, amended: a collect_batch call changes the ordering list by a       *)
(* cyclic shift only, and an add changes it only by appending a host that  *)
(* is new to it at the end of the list as it is rotated by then.           *)
(***************************************************************************)
C24_OrderChangesByShiftOrAppend ==
    [][/\ CollectStep => IsCyclicShift(dq'.order, dq.order)
       /\ AddStep => \/ dq'.order = dq.order
                     \/ \E h \in Hosts : /\ Count(dq.order, h) = 0
                                         /\ dq'.order = Append(dq.order, h)]_vars

\* Three hosts, the third added after a rotation: the list is no cyclic shift of
\* the order of first insertion.
C24_Witness ==
    /\ Len(dq.order) = 3
    /\ dq_max >= 0
    /\ ~IsCyclicShift(dq.order, dq_known)

(***************************************************************************)
(* C25: after any sequence of add and collect_batch calls the ordering     *)
(* list holds every host that was ever passed to add exactly once, also    *)
(* when its queue is drained, and no other; and the hosts of the list are  *)
(* the keys of the queue map.                                              *)
(***************************************************************************)
C25_OrderHoldsEveryKnownHostOnce ==
    /\ \A h \in Hosts :
           Count(dq.order, h) = IF Count(dq_known, h) > 0 THEN 1 ELSE 0
    /\ {dq.order[i] : i \in 1..Len(dq.order)} = DOMAIN dq.queues

\* Two hosts were added more than once in all, and a call drained the queue of a
\* host, which is still in the list.
C25_Witness ==
    /\ Len(dq_known) = 2
    /\ Len(dq_batch) >= 3
    /\ \E h \in DOMAIN dq.queues : dq.queues[h] = <<>>

RECURSIVE Part(_, _, _)
\* The URLs of a batch that were popped from the queue of host h, in order.
Part(batch, from, h) ==
    IF batch = <<>> THEN <<>>
    ELSE (IF Head(from) = h THEN <<Head(batch)>> ELSE <<>>)
             \o Part(Tail(batch), Tail(from), h)

RECURSIVE DueInTurn(_, _, _, _)
\* From DomainQueues q, reached from queues0 by k - 1 collect_batch(m) calls, the
\* k-th call and those after it, until the queues are empty, return of each host
\* the URLs at the 0-based positions (k-1)m .. km-1 of its queue in queues0.
DueInTurn(queues0, q, k, m) ==
    k > MaxPending
        \/ (\A h \in DOMAIN q.queues : q.queues[h] = <<>>)
        \/ LET r == DQCollectBatch(q, m)
           IN  /\ \A h \in DOMAIN queues0 :
                      Part(r.batch, r.from, h)
                          = SubSeq(queues0[h], (k - 1) * m + 1,
                                   Min(k * m, Len(queues0[h])))
               /\ DueInTurn(queues0, r.dq, k + 1, m)

(***************************************************************************)
(* C26: no host starves another. With max_per_domain = m >= 1 the k-th     *)
(* following collect_batch call returns, of each host, the URLs at the     *)
(* 0-based positions (k-1)m .. km-1 of its queue, that is the URL at       *)
(* position p in call floor(p / m) + 1, whatever the other hosts have      *)
(* queued; and an add in the meantime moves no queued URL.                 *)
(***************************************************************************)
C26_NoHostStarves ==
    /\ [](\A m \in 1..MaxPerDomainArg : DueInTurn(dq.queues, dq, 1, m))
    /\ [][AddStep => \A h \in DOMAIN dq.queues :
                         SubSeq(dq'.queues[h], 1, Len(dq.queues[h])) = dq.queues[h]]_vars

\* One host has three URLs queued and another host one: the third URL is due in
\* the third call with m = 1.
C26_Witness ==
    /\ \E h \in DOMAIN dq.queues :
           /\ Len(dq.queues[h]) = 3
           /\ \E g \in DOMAIN dq.queues \ {h} : Len(dq.queues[g]) = 1


(***************************************************************************)
(* C27: every failure of the proxy fallback request - a transport error, a *)
(* 403 status or body, an error while the body is read - adds exactly one  *)
(* to failed for that URL and ends process_page with an error: no record,  *)
(* no link of the page.                                                    *)
(***************************************************************************)
C27_FallbackFailureCountsFailed ==
    \A w \in Workers :
        acct[w].end \in {"send_err", "forbidden", "body_err"} =>
            /\ acct[w].d.failed = 1
            /\ acct[w].pushes = 0
            /\ worker[w].links = {}

(***************************************************************************)
(* C28: with an empty proxy pool a URL whose tunnel attempts all fail ends *)
(* with 'No proxy available', without a record or a link, and the counters *)
(* show it: tunnel +2, proxy +1, success +0 and failed +1 for each such    *)
(* URL.                                                                    *)
(***************************************************************************)
C28_EmptyPoolFailsEveryURL ==
    proxies = 0 =>
        \A w \in Workers :
            acct[w].tunnel_fails = MAX_TUNNEL_RETRIES =>
                /\ acct[w].end = "no_proxy"
                /\ acct[w].pushes = 0
                /\ worker[w].links = {}
                /\ acct[w].d.tunnel = 2
                /\ acct[w].d.proxy = 1
                /\ acct[w].d.success = 0
                /\ acct[w].d.failed = 1

\* The content errors: a 403 status, a body with '403 Forbidden', a body with
\* both 'Cloudflare' and 'Worker threw exception'.
ContentError(response) ==
    \/ response.status = 403
    \/ "403 Forbidden" \in response.text
    \/ {"Cloudflare", "Worker threw exception"} \subseteq response.text

(***************************************************************************)
(* C29: both fetch paths classify a response with a body the same way: it  *)
(* is a failure (an Err of try_tunnel_request, a terminal Err of the proxy *)
(* arm) exactly if it is a content error, and a success otherwise.         *)
(***************************************************************************)
C29_SameClassificationOnBothPaths ==
    cls_resp.kind = "body" =>
        /\ cls_tunnel # "none" => (cls_tunnel = "err" <=> ContentError(cls_resp))
        /\ cls_proxy # "none" => (cls_proxy # "ok" <=> ContentError(cls_resp))

(***************************************************************************)
(* C30: on both success paths - the tunnel's and the proxy fallback's -    *)
(* last_activity is set to the current time and success is incremented     *)
(* when the body is there, before the extractor is invoked on it.          *)
(***************************************************************************)
C30_SuccessResetsActivityBeforeExtraction ==
    [][\A w \in Workers :
           (worker[w].pc \in {"tunnel_wait", "proxy_wait"} /\ worker'[w].pc = "parse") =>
               /\ last_activity' = now'
               /\ acct'[w].d.success = 1]_vars


(***************************************************************************)
(* C31: only successful activity postpones the inactivity checker: a step  *)
(* moves last_activity only if a fetch has got its body in it, so the      *)
(* processing of a URL that ends in an error leaves last_activity alone.   *)
(***************************************************************************)
C31_OnlySuccessMovesLastActivity ==
    [][last_activity' # last_activity =>
          \E w \in Workers : /\ worker[w].pc \in {"tunnel_wait", "proxy_wait"}
                             /\ worker'[w].pc = "parse"]_vars


(***************************************************************************)
(* C32: a push that makes the pending buffer reach BATCH_SIZE records      *)
(* removes exactly the first BATCH_SIZE records, in push order, under the  *)
(* lock it pushed under and hands them to one background write; so the     *)
(* buffer holds fewer than BATCH_SIZE records whenever its lock is free,   *)
(* and every batch handed off has exactly BATCH_SIZE records.              *)
(***************************************************************************)
C32_BatchHandOff ==
    /\ [](/\ pending_lock = 0 => Len(pending_analyses) < BATCH_SIZE
          /\ \A i \in 1..Len(spawned) : Len(spawned[i]) = BATCH_SIZE)
    /\ [][\A w \in Workers :
              acct'[w].pushes = acct[w].pushes + 1 =>
                  LET pushed == Append(pending_analyses, worker[w].url)
                  IN  /\ pending_lock = 0 /\ pending_lock' = w
                      /\ IF Len(pushed) >= BATCH_SIZE
                         THEN /\ spawned' = Append(spawned, SubSeq(pushed, 1, BATCH_SIZE))
                              /\ pending_analyses'
                                     = SubSeq(pushed, BATCH_SIZE + 1, Len(pushed))
                         ELSE /\ spawned' = spawned
                              /\ pending_analyses' = pushed]_vars

\* Two records were pushed by two workers; the batch of both, in push order, is
\* with a background write and the buffer is empty, its lock free.
C32_Witness ==
    /\ Len(spawned) = 1
    /\ Len(spawned[1]) = BATCH_SIZE
    /\ spawned[1][1] # spawned[1][BATCH_SIZE]
    /\ pending_analyses = <<>>
    /\ pending_lock = 0


(***************************************************************************)
(* C33: a failing write of a batch is only printed. The step in which a    *)
(* spawned save ends in error changes nothing but the set of running saves:*)
(* the records are not put back on the pending buffer, are handed to no    *)
(* other save and do not reach the sink, no counter moves, no worker and   *)
(* no step of main is disturbed; and a record is held by the buffer, a     *)
(* running save or the sink only from the push of the worker that fetched  *)
(* its page, so a record lost with a failed save is not written again.     *)
(***************************************************************************)
\* The records held by the buffer, by a running save or by the sink.
C33_Held ==
    {pending_analyses[i] : i \in 1..Len(pending_analyses)}
        \cup {spawned[i][j] : i \in 1..Len(spawned), j \in 1..SaveBatchSize}
        \cup {sink[i][j] : i \in 1..Len(sink), j \in 1..SaveBatchSize}

C33_FailedSaveOnlyLogged ==
    /\ [][(Len(spawned') < Len(spawned) /\ sink' = sink) =>
              /\ \E i \in 1..Len(spawned) :
                    /\ spawned' = RemoveAt(spawned, i)
                    /\ \A j \in 1..Len(spawned[i]) : spawned[i][j] \notin C33_Held'
              /\ UNCHANGED <<pending_analyses, pending_lock, db_semaphore, metrics,
                             pages_count, current, worker, acct, main_pc, seeds, visited,
                             discovered, buffer, processing, log, last_activity>>]_vars
    /\ [][\A u \in C33_Held' \ C33_Held :
              \E w \in Workers : /\ worker[w].pc = "push"
                                 /\ worker[w].url = u
                                 /\ acct'[w].pushes = acct[w].pushes + 1]_vars

\* The save of the first page's record failed: the page is counted, its record
\* is nowhere; and a worker is fetching the next page.
C33_Witness ==
    /\ metrics.success = 1
    /\ C33_Held = {}
    /\ \A w \in Workers : worker[w].pc # "push"
    /\ \E w \in Workers : worker[w].pc = "tunnel_wait"
    /\ Running


(***************************************************************************)
(* C34: the links parse_html returns are exactly the URLs got by joining   *)
(* each a[href] with the base URL and stripping the fragment, of scheme    *)
(* http or https and of a path the ignored-path filter does not match;     *)
(* no link is returned twice (hrefs that differ only in fragment give one  *)
(* link); a malformed href is skipped and the call returns.                *)
(***************************************************************************)
\* What each href of the documents stands for on the page http://a.test/: the
\* link it gives, or no link.
C34_LinkOf(raw) ==
    CASE raw = "/docs" -> {"http://a.test/docs"}
      [] raw = "/docs#intro" -> {"http://a.test/docs"}
      [] raw = "http://a.test/docs#top" -> {"http://a.test/docs"}
      [] raw = "https://b.test/y" -> {"https://b.test/y"}
      [] raw = "#top" -> {"http://a.test/"}
      [] raw = "/file.pdf" -> {}
      [] raw = "/Report.PDF" -> {}
      [] raw = "/download/app" -> {}
      [] raw = "mailto:me@a.test" -> {}
      [] raw = "http://[" -> {}

C34_LinksAreTheFilteredSet ==
    html_ret.some =>
        LET ret == html_ret.val.links
        IN  /\ {ret[i] : i \in 1..Len(ret)}
                 = UNION {C34_LinkOf(html_doc[i].href.val.raw) :
                            i \in {k \in 1..Len(html_doc) : /\ html_doc[k].tag = "a"
                                                            /\ html_doc[k].href.some}}
            /\ \A i, j \in 1..Len(ret) : ret[i] = ret[j] => i = j
            /\ html_pos = Len(html_doc)

\* A page with a malformed href and two hrefs of /docs that differ in fragment:
\* the call returned the one link.
C34_Witness ==
    /\ html_ret.some
    /\ html_doc = <<[tag |-> "a", rel |-> "", href |-> Some(HrefBad)],
                    [tag |-> "a", rel |-> "", href |-> Some(HrefDocsIntro)],
                    [tag |-> "a", rel |-> "", href |-> Some(HrefDocs)]>>
    /\ html_ret.val.links = <<"http://a.test/docs">>

(***************************************************************************)
(* C35: with several <link rel="canonical"> elements that have an href,    *)
(* canonical_url is the raw href of the first in document order; the       *)
(* later ones do not change it.                                            *)
(***************************************************************************)
\* The positions of the canonical links with an href.
C35_Canonicals ==
    {k \in 1..Len(html_doc) : /\ html_doc[k].tag = "link"
                              /\ html_doc[k].rel = "canonical"
                              /\ html_doc[k].href.some}

C35_FirstCanonicalWins ==
    (html_ret.some /\ C35_Canonicals # {}) =>
        LET first == CHOOSE k \in C35_Canonicals : \A m \in C35_Canonicals : k <= m
        IN  html_ret.val.canonical_url = Some(html_doc[first].href.val.raw)

(***************************************************************************)
(* C36: the links of a page are returned in document order of their first  *)
(* occurrence.                                                             *)
(***************************************************************************)
\* The position of the first a[href] of the document that gives the link.
C36_FirstOccurrence(link) ==
    CHOOSE k \in 1..Len(html_doc) :
        /\ html_doc[k].tag = "a" /\ html_doc[k].href.some
        /\ link \in C34_LinkOf(html_doc[k].href.val.raw)
        /\ \A m \in 1..(k - 1) :
              ~(/\ html_doc[m].tag = "a" /\ html_doc[m].href.some
                /\ link \in C34_LinkOf(html_doc[m].href.val.raw))

C36_LinksInDocumentOrder ==
    html_ret.some =>
        LET ret == html_ret.val.links
        IN  \A i, j \in 1..Len(ret) :
                i < j => C36_FirstOccurrence(ret[i]) < C36_FirstOccurrence(ret[j])


(***************************************************************************)
(* C37: record conservation. Every process_page that returns Ok gives      *)
(* exactly one record; a record is at every moment in exactly one place,   *)
(* the pending buffer or one batch handed to a save, never in two and      *)
(* never dropped by the crawl; and when no worker is between its Ok and    *)
(* its push, success is the number of records ever pushed. (In Spec the    *)
(* batches handed over stay in spawned.)                                   *)
(***************************************************************************)
\* The records of the pending buffer and of the batches handed over, in one
\* sequence.
RECURSIVE C37_Flatten(_)
C37_Flatten(batches) ==
    IF batches = <<>> THEN <<>> ELSE Head(batches) \o C37_Flatten(Tail(batches))

C37_Records == pending_analyses \o C37_Flatten(spawned)

C37_RecordConservation ==
    /\ [](/\ \A i, j \in 1..Len(C37_Records) : C37_Records[i] = C37_Records[j] => i = j
          /\ metrics.success
                = Len(C37_Records) + Cardinality({w \in Workers : worker[w].pc = "push"})
          /\ \A w \in Workers :
                /\ worker[w].pc = "push" =>
                      \A i \in 1..Len(C37_Records) : C37_Records[i] # worker[w].url
                /\ (worker[w].pc \in {"links", "finish"} /\ acct[w].end = "ok") =>
                      \E i \in 1..Len(C37_Records) : C37_Records[i] = worker[w].url
          /\ (\A w \in Workers : worker[w].pc = "idle") =>
                metrics.success = Len(C37_Records))
    /\ [][/\ \A i \in 1..Len(C37_Records) :
                \E j \in 1..Len(C37_Records') : C37_Records'[j] = C37_Records[i]
          /\ Len(C37_Records') # Len(C37_Records) =>
                \E w \in Workers : /\ worker[w].pc = "push"
                                   /\ worker'[w].pc = "links"
                                   /\ Len(C37_Records') = Len(C37_Records) + 1
                                   /\ metrics' = metrics]_vars

\* Two pages were fetched; their records are in the one batch handed over, the
\* buffer is empty and every worker is idle.
C37_Witness ==
    /\ metrics.success = 2
    /\ Len(spawned) = 1
    /\ pending_analyses = <<>>
    /\ \A w \in Workers : worker[w].pc = "idle"


(***************************************************************************)
(* C38: the crawl engine is deadlock-free. Under every interleaving of the *)
(* fetch workers, main with its seed block, the flusher, the metrics       *)
(* emitter and the inactivity checker, no task waits, directly or through  *)
(* others, on itself over the pending_analyses lock, the DB semaphore, the *)
(* visited lock, the logger lock and the last_activity lock; and a task    *)
(* that waits for one of them waits on a task that can take a step.        *)
(***************************************************************************)
\* Task t can take a step.
C38_CanStep(t) ==
    \/ /\ LockWanted(lk_pc[t]) # "none"
       /\ lk_holder[LockWanted(lk_pc[t])] = NoTask
    \/ /\ lk_pc[t] = "acquire_permit"
       /\ Cardinality(lk_permits) < DB_CONCURRENCY
    \/ lk_pc[t] \in {"seed_insert", "write_activity", "fetch", "write_activity_ok",
                     "pushed", "spawn", "insert", "arm_end", "after", "log_entry",
                     "flusher_flush", "emitter_entry", "checker_read", "checker_exit"}

C38_NoDeadlock ==
    \A t \in LockTasks :
        /\ t \notin WaitsOnTransitively(t)
        /\ (LkRunning /\ lk_pc[t] # "fanout") =>
              \A u \in WaitsOn(t) : C38_CanStep(u)

\* A worker holds the pending_analyses lock and the visited lock, the other
\* waits for the pending_analyses lock, and the emitter waits for the logger
\* that the flusher holds.
C38_Witness ==
    /\ \E w, v \in Workers :
          /\ lk_holder["pending_analyses"] = SlotTask(w)
          /\ lk_holder["visited"] = SlotTask(w)
          /\ lk_pc[SlotTask(v)] = "lock_pending"
    /\ lk_holder["logger"] = FlusherTask
    /\ lk_pc[EmitterTask] = "emitter_lock"
    /\ LkRunning


(***************************************************************************)
(* C39: every run terminates. With every request ending and the timers     *)
(* ticking, the process exits after finitely many steps, for every seed    *)
(* list and every behaviour of the remote sites: the pages under the cap   *)
(* are the only ones to write last_activity, and the checker then fires,   *)
(* before the clock has reached EndTime.                                   *)
(***************************************************************************)
C39_EveryRunTerminates ==
    /\ <>(main_pc = "exited")
    /\ [](now < EndTime)
    /\ [](SumOver(n_fetched, AllURLs) <= MAX_PAGES)

\* The process has exited after MAX_PAGES pages, later than a run without a
\* page can last.
C39_Witness ==
    /\ main_pc = "exited"
    /\ metrics.total >= MAX_PAGES
    /\ now > INACTIVITY_TIMEOUT + CHECK_INTERVAL

====
